---- MODULE Spec2Model ----
(***************************************************************************)
(* The two-level page-table mapper (crates/x86 MappedPageTable), the boot  *)
(* frame allocator (svm_kernel memory.rs BootInfoFrameAllocator), the      *)
(* operations built on them, the bootloader's page tables and its          *)
(* setup_mmu (mmu.rs), the ACPI singleton (acpi.rs), and create_next_table *)
(* followed write by write next to a translate on another core.            *)
(*                                                                         *)
(* A page-table entry is the pair (addr, flags): in the hardware word the  *)
(* address bits and the flag bits are disjoint, so the word is zero        *)
(* exactly when addr = 0 and flags = {}.                                   *)
(***************************************************************************)
EXTENDS Integers, Sequences, FiniteSets, TLC

VARIABLES
    level_2_table,  \* MappedPageTable.level_2_table: P2Idx -> entry
    mem,            \* physical memory behind frame_to_pointer: table frame -> (P1Idx -> entry)
    memory_map,     \* BootInfoFrameAllocator.memory_map: sequence of regions
    next,           \* BootInfoFrameAllocator.next
    overflow_checks,\* whether the build panics on integer overflow (debug) or wraps (release)
    returned,       \* what each allocate_frame call returned, in call order
    ACPI_TABLES,    \* acpi.rs static mut ACPI_TABLES: Option<Acpi>
    pc,             \* where the call that is followed write by write stands
    cpu,            \* the control registers setup_mmu writes: CR0, EFER and CR3
    res             \* the last operation: its arguments and what it returned

vars ==
    <<level_2_table, mem, memory_map, next, overflow_checks, returned, ACPI_TABLES, pc, cpu,
      res>>

(***************************************************************************)
(* Sizes and flags                                                         *)
(***************************************************************************)
Size4KiB == 4096
Size2MiB == 2097152
Size4MiB == 4194304
\* the literal 0o_777_7777 that translate masks a huge page's offset with
HugeOffsetMask == 2097151
\* entries per table (10 index bits per level)
EntryCount == 1024

PRESENT == "PRESENT"
WRITABLE == "WRITABLE"
NO_CACHE == "NO_CACHE"
HUGE_PAGE == "HUGE_PAGE"
NO_EXECUTE == "NO_EXECUTE"

\* the table slots the model follows (a table has EntryCount of them)
P2Idx == {0}
P1Idx == {0, 1}

\* flag sets callers pass (as flags and as parent_table_flags)
FlagSets == {{}, {PRESENT}, {PRESENT, WRITABLE}, {PRESENT, HUGE_PAGE}}
\* frames callers map pages to
Frames4KiB == {0, 3 * Size4KiB}
Frames4MiB == {0, Size4MiB}
Pages4KiB == {i2 * Size4MiB + i1 * Size4KiB : i2 \in P2Idx, i1 \in P1Idx}
Pages4MiB == {i2 * Size4MiB : i2 \in P2Idx}

p2_index(addr) == (addr \div Size4MiB) % EntryCount
p1_index(addr) == (addr \div Size4KiB) % EntryCount
containing_address(addr, size) == addr - (addr % size)

(***************************************************************************)
(* PageTableEntry                                                          *)
(***************************************************************************)
Unused == [addr |-> 0, flags |-> {}]
is_unused(e) == e.addr = 0 /\ e.flags = {}
set_addr(addr, flags) == [addr |-> addr, flags |-> flags]
set_flags(e, flags) == [addr |-> e.addr, flags |-> flags]
\* entry.frame(): FrameNotPresent, HugeFrame or the frame the entry points to
frame(e) ==
    IF PRESENT \notin e.flags THEN [err |-> "FrameNotPresent", addr |-> 0]
    ELSE IF HUGE_PAGE \in e.flags THEN [err |-> "HugeFrame", addr |-> 0]
    ELSE [err |-> "Ok", addr |-> containing_address(e.addr, Size4KiB)]

ZeroTable == [i \in P1Idx |-> Unused]
\* what an allocated frame holds before anyone zeroes it
StaleTable == [i \in P1Idx |-> [addr |-> 7 * Size4KiB, flags |-> {PRESENT, WRITABLE}]]

(***************************************************************************)
(* Memory map (bootinfo::MemoryRegion / FrameRange)                        *)
(***************************************************************************)
Usable == "Usable"
Reserved == "Reserved"
Empty == "Empty"

Region(s, e, t) == [start_frame_number |-> s, end_frame_number |-> e, region_type |-> t]
start_addr(r) == r.start_frame_number * Size4KiB
end_addr(r) == r.end_frame_number * Size4KiB
range_size(r) == end_addr(r) - start_addr(r)
\* FrameRange::new(start_addr, end_addr): the frames up to the one holding byte
\* end_addr - 1. With end_addr = 0 the subtraction wraps in u64: the last frame
\* number is 2^52 - 1, and end_addr() of the result wraps back to 0.
FrameRange_new(s, e, t) ==
    IF e = 0 THEN Region(s \div Size4KiB, 0, t)
    ELSE Region(s \div Size4KiB, ((e - 1) \div Size4KiB) + 1, t)
MemoryRegion_empty == Region(0, 0, Empty)

(***************************************************************************)
(* BootInfoFrameAllocator                                                  *)
(***************************************************************************)
\* first adjustment of usable_frames: cut the end so that the size is a multiple of size
reduce_end(r, size) ==
    LET diff == range_size(r) % size IN
    IF diff # 0
    THEN [region |-> FrameRange_new(start_addr(r), end_addr(r) - diff, r.region_type),
          underflow |-> end_addr(r) - diff = 0]
    ELSE [region |-> r, underflow |-> FALSE]

\* second adjustment: raise the start to the next multiple of size
raise_start(r, size) ==
    LET rest == start_addr(r) % size
        new == start_addr(r) + (size - rest)
    IN  IF rest # 0
        THEN IF new > end_addr(r) THEN MemoryRegion_empty
             ELSE FrameRange_new(new, end_addr(r), r.region_type)
        ELSE r

\* number of addresses (start..end).step_by(size) yields
step_count(r, size) == (range_size(r) + size - 1) \div size

\* usable_frames::<T>().nth(n), walking the regions from index i as the lazy
\* iterator chain does. underflow: the u64 subtraction of FrameRange::new wrapped
\* (a panic when the build checks overflow).
RECURSIVE usable_frames_nth(_, _, _, _, _)
usable_frames_nth(map, i, n, size, checks) ==
    IF i > Len(map) THEN [kind |-> "None", addr |-> 0]
    ELSE IF map[i].region_type # Usable THEN usable_frames_nth(map, i + 1, n, size, checks)
    ELSE
        LET a == reduce_end(map[i], size)
            r == raise_start(a.region, size)
        IN  IF a.underflow /\ checks THEN [kind |-> "Panic", addr |-> 0]
            ELSE IF range_size(r) < size THEN usable_frames_nth(map, i + 1, n, size, checks)
            ELSE IF n < step_count(r, size)
                 THEN [kind |-> "Some", addr |-> containing_address(start_addr(r) + n * size, size)]
                 ELSE usable_frames_nth(map, i + 1, n - step_count(r, size), size, checks)

\* allocate_frame that forgets to advance the cursor
allocate_frame_4kib_no_advance(map, nxt, checks) ==
    LET f == usable_frames_nth(map, 1, nxt, Size4KiB, checks) IN
    [kind |-> f.kind, addr |-> f.addr, next |-> nxt]

\* FrameAllocator<Size4KiB>::allocate_frame: the frame and the cursor afterwards
allocate_frame_4kib(map, nxt, checks) ==
    LET f == usable_frames_nth(map, 1, nxt, Size4KiB, checks) IN
    [kind |-> f.kind, addr |-> f.addr, next |-> IF f.kind = "Panic" THEN nxt ELSE nxt + 1]

\* FrameAllocator<Size2MiB>::allocate_frame
allocate_frame_2mib(map, nxt, checks) ==
    LET f == usable_frames_nth(map, 1, nxt, Size2MiB, checks) IN
    [kind |-> f.kind, addr |-> f.addr,
     next |-> IF f.kind = "Panic" THEN nxt ELSE nxt + (Size2MiB \div Size4KiB)]

(***************************************************************************)
(* PageTableWalker                                                         *)
(***************************************************************************)
\* next_table / next_table_mut: the table the entry points to, or the walk error
next_table(entry) ==
    LET f == frame(entry) IN
    IF f.err = "HugeFrame" THEN [err |-> "MappedToHugePage", table |-> 0]
    ELSE IF f.err = "FrameNotPresent" THEN [err |-> "NotMapped", table |-> 0]
    ELSE [err |-> "Ok", table |-> f.addr]

\* create_next_table that writes the insert flags into the entry before it asks
\* the allocator for a frame
create_next_table_marks_entry_first(entry, insert_flags, map, nxt, checks, memv) ==
    LET a == allocate_frame_4kib(map, nxt, checks)
        alloc_log == <<[size |-> Size4KiB, kind |-> a.kind, addr |-> a.addr]>>
        marked == set_flags(entry, entry.flags \cup insert_flags)
    IN  IF is_unused(entry) /\ a.kind = "None"
        THEN [kind |-> "FrameAllocationFailed", entry |-> marked, next |-> a.next,
              mem |-> memv, table |-> 0, log |-> alloc_log]
        ELSE IF is_unused(entry) /\ a.kind = "Some" /\ HUGE_PAGE \notin insert_flags
                /\ PRESENT \in insert_flags
        THEN [kind |-> "Ok", entry |-> set_addr(a.addr, insert_flags), next |-> a.next,
              mem |-> [memv EXCEPT ![a.addr] = ZeroTable], table |-> a.addr, log |-> alloc_log]
        ELSE IF ~is_unused(entry) /\ next_table(marked).err = "Ok"
        THEN [kind |-> "Ok", entry |-> marked, next |-> nxt, mem |-> memv,
              table |-> next_table(marked).table, log |-> <<>>]
        ELSE [kind |-> "Panic", entry |-> entry, next |-> nxt, mem |-> memv,
              table |-> 0, log |-> <<>>]

\* create_next_table that hands out the new table as the allocator left it
create_next_table_skips_zero(entry, insert_flags, map, nxt, checks, memv) ==
    LET a == allocate_frame_4kib(map, nxt, checks)
        alloc_log == <<[size |-> Size4KiB, kind |-> a.kind, addr |-> a.addr]>>
        \* the walk after the entry has been written
        walk(e, created, nxt2, log) ==
            LET t == next_table(e) IN
            IF t.err = "MappedToHugePage"
            THEN [kind |-> "MappedToHugePage", entry |-> e, next |-> nxt2, mem |-> memv,
                  table |-> 0, log |-> log]
            ELSE IF t.err = "NotMapped"
            THEN [kind |-> "Panic", entry |-> e, next |-> nxt2, mem |-> memv,
                  table |-> 0, log |-> log]
            ELSE [kind |-> "Ok", entry |-> e, next |-> nxt2,
                  mem |-> memv,
                  table |-> t.table, log |-> log]
    IN  IF is_unused(entry)
        THEN IF a.kind = "Some"
             THEN IF HUGE_PAGE \in insert_flags
                  \* set_frame asserts that the flags hold no HUGE_PAGE
                  THEN [kind |-> "Panic", entry |-> entry, next |-> a.next, mem |-> memv,
                        table |-> 0, log |-> alloc_log]
                  ELSE walk(set_addr(a.addr, insert_flags), TRUE, a.next, alloc_log)
             ELSE IF a.kind = "None"
             THEN [kind |-> "FrameAllocationFailed", entry |-> entry, next |-> a.next,
                   mem |-> memv, table |-> 0, log |-> alloc_log]
             ELSE [kind |-> "Panic", entry |-> entry, next |-> a.next, mem |-> memv,
                   table |-> 0, log |-> <<>>]
        ELSE IF insert_flags # {} /\ ~(insert_flags \subseteq entry.flags)
             THEN walk(set_flags(entry, entry.flags \cup insert_flags), FALSE, nxt, <<>>)
             ELSE walk(entry, FALSE, nxt, <<>>)

\* create_next_table that clears WRITABLE of an entry in use when it merges the
\* insert flags into it
create_next_table_merge_clears_writable(entry, insert_flags, map, nxt, checks, memv) ==
    LET a == allocate_frame_4kib(map, nxt, checks)
        alloc_log == <<[size |-> Size4KiB, kind |-> a.kind, addr |-> a.addr]>>
        \* the walk after the entry has been written
        walk(e, created, nxt2, log) ==
            LET t == next_table(e) IN
            IF t.err = "MappedToHugePage"
            THEN [kind |-> "MappedToHugePage", entry |-> e, next |-> nxt2, mem |-> memv,
                  table |-> 0, log |-> log]
            ELSE IF t.err = "NotMapped"
            THEN [kind |-> "Panic", entry |-> e, next |-> nxt2, mem |-> memv,
                  table |-> 0, log |-> log]
            ELSE [kind |-> "Ok", entry |-> e, next |-> nxt2,
                  mem |-> IF created THEN [memv EXCEPT ![t.table] = ZeroTable] ELSE memv,
                  table |-> t.table, log |-> log]
    IN  IF is_unused(entry)
        THEN IF a.kind = "Some"
             THEN IF HUGE_PAGE \in insert_flags
                  \* set_frame asserts that the flags hold no HUGE_PAGE
                  THEN [kind |-> "Panic", entry |-> entry, next |-> a.next, mem |-> memv,
                        table |-> 0, log |-> alloc_log]
                  ELSE walk(set_addr(a.addr, insert_flags), TRUE, a.next, alloc_log)
             ELSE IF a.kind = "None"
             THEN [kind |-> "FrameAllocationFailed", entry |-> entry, next |-> a.next,
                   mem |-> memv, table |-> 0, log |-> alloc_log]
             ELSE [kind |-> "Panic", entry |-> entry, next |-> a.next, mem |-> memv,
                   table |-> 0, log |-> <<>>]
        ELSE IF insert_flags # {} /\ ~(insert_flags \subseteq entry.flags)
             THEN walk(set_flags(entry, (entry.flags \ {WRITABLE}) \cup insert_flags), FALSE,
                       nxt, <<>>)
             ELSE walk(entry, FALSE, nxt, <<>>)

\* create_next_table: kind is Ok, FrameAllocationFailed, MappedToHugePage or Panic;
\* entry, next, mem and returned are what the call leaves behind (also when it fails).
create_next_table(entry, insert_flags, map, nxt, checks, memv) ==
    LET a == allocate_frame_4kib(map, nxt, checks)
        alloc_log == <<[size |-> Size4KiB, kind |-> a.kind, addr |-> a.addr]>>
        \* the walk after the entry has been written
        walk(e, created, nxt2, log) ==
            LET t == next_table(e) IN
            IF t.err = "MappedToHugePage"
            THEN [kind |-> "MappedToHugePage", entry |-> e, next |-> nxt2, mem |-> memv,
                  table |-> 0, log |-> log]
            ELSE IF t.err = "NotMapped"
            THEN [kind |-> "Panic", entry |-> e, next |-> nxt2, mem |-> memv,
                  table |-> 0, log |-> log]
            ELSE [kind |-> "Ok", entry |-> e, next |-> nxt2,
                  mem |-> IF created THEN [memv EXCEPT ![t.table] = ZeroTable] ELSE memv,
                  table |-> t.table, log |-> log]
    IN  IF is_unused(entry)
        THEN IF a.kind = "Some"
             THEN IF HUGE_PAGE \in insert_flags
                  \* set_frame asserts that the flags hold no HUGE_PAGE
                  THEN [kind |-> "Panic", entry |-> entry, next |-> a.next, mem |-> memv,
                        table |-> 0, log |-> alloc_log]
                  ELSE walk(set_addr(a.addr, insert_flags), TRUE, a.next, alloc_log)
             ELSE IF a.kind = "None"
             THEN [kind |-> "FrameAllocationFailed", entry |-> entry, next |-> a.next,
                   mem |-> memv, table |-> 0, log |-> alloc_log]
             ELSE [kind |-> "Panic", entry |-> entry, next |-> a.next, mem |-> memv,
                   table |-> 0, log |-> <<>>]
        ELSE IF insert_flags # {} /\ ~(insert_flags \subseteq entry.flags)
             THEN walk(set_flags(entry, entry.flags \cup insert_flags), FALSE, nxt, <<>>)
             ELSE walk(entry, FALSE, nxt, <<>>)

(***************************************************************************)
(* Translate                                                               *)
(***************************************************************************)
NotMapped == [kind |-> "NotMapped", size |-> 0, frame |-> 0, offset |-> 0, flags |-> {}]
Mapped(size, f, offset, flags) ==
    [kind |-> "Mapped", size |-> size, frame |-> f, offset |-> offset, flags |-> flags]
InvalidFrameAddress(addr) ==
    [kind |-> "InvalidFrameAddress", size |-> 0, frame |-> addr, offset |-> 0, flags |-> {}]

\* translate that masks a huge page's offset one bit too wide
translate_offset_keeps_index_bit(p2, memv, addr) ==
    LET entry == p2[p2_index(addr)]
        t == next_table(entry)
    IN  IF t.err = "NotMapped" THEN NotMapped
        ELSE IF t.err = "MappedToHugePage"
        THEN Mapped(Size4MiB, containing_address(entry.addr, Size4MiB),
                    addr % (2 * Size4MiB), entry.flags)
        ELSE
            LET p1_entry == memv[t.table][p1_index(addr)] IN
            IF is_unused(p1_entry) THEN NotMapped
            ELSE IF p1_entry.addr % Size4KiB # 0 THEN InvalidFrameAddress(p1_entry.addr)
            ELSE Mapped(Size4KiB, p1_entry.addr, addr % Size4KiB, p1_entry.flags)

translate(p2, memv, addr) ==
    LET entry == p2[p2_index(addr)]
        t == next_table(entry)
    IN  IF t.err = "NotMapped" THEN NotMapped
        ELSE IF t.err = "MappedToHugePage"
        THEN Mapped(Size4MiB, containing_address(entry.addr, Size4MiB),
                    addr % (HugeOffsetMask + 1), entry.flags)
        ELSE
            LET p1_entry == memv[t.table][p1_index(addr)] IN
            IF is_unused(p1_entry) THEN NotMapped
            ELSE IF p1_entry.addr % Size4KiB # 0 THEN InvalidFrameAddress(p1_entry.addr)
            ELSE Mapped(Size4KiB, p1_entry.addr, addr % Size4KiB, p1_entry.flags)

(***************************************************************************)
(* MappedPageTable: what each operation returns and leaves behind          *)
(***************************************************************************)
Outcome(kind, ret, p2, memv, nxt, log) ==
    [kind |-> kind, ret |-> ret, p2 |-> p2, mem |-> memv, next |-> nxt, log |-> log]

map_to_4mib(p2, memv, nxt, page, f, flags) ==
    IF ~is_unused(p2[p2_index(page)])
    THEN Outcome("PageAlreadyMapped", f, p2, memv, nxt, <<>>)
    ELSE Outcome("Ok", 0,
                 [p2 EXCEPT ![p2_index(page)] = set_addr(f, flags \cup {HUGE_PAGE})],
                 memv, nxt, <<>>)

\* map_to_4kib storing the frame without the WRITABLE flag
map_to_4kib_drops_writable(p2, memv, map, nxt, checks, page, f, flags, parent_table_flags) ==
    LET c == create_next_table(p2[p2_index(page)], parent_table_flags, map, nxt, checks, memv)
        p2c == [p2 EXCEPT ![p2_index(page)] = c.entry]
    IN  IF c.kind = "MappedToHugePage"
        THEN Outcome("ParentEntryHugePage", 0, p2c, c.mem, c.next, c.log)
        ELSE IF c.kind # "Ok"
        THEN Outcome(c.kind, 0, p2c, c.mem, c.next, c.log)
        ELSE IF ~is_unused(c.mem[c.table][p1_index(page)])
        THEN Outcome("PageAlreadyMapped", f, p2c, c.mem, c.next, c.log)
        ELSE IF HUGE_PAGE \in flags
        THEN Outcome("Panic", 0, p2c, c.mem, c.next, c.log)
        ELSE Outcome("Ok", 0, p2c,
                     [c.mem EXCEPT ![c.table][p1_index(page)] = set_addr(f, flags \ {WRITABLE})],
                     c.next, c.log)

\* map_to_4kib once create_next_table has returned c: the level-2 entry is what the
\* walker left in it, also when the map fails
map_to_4kib_in_table(c, p2, page, f, flags) ==
    LET p2c == [p2 EXCEPT ![p2_index(page)] = c.entry]
    IN  IF c.kind = "MappedToHugePage"
        THEN Outcome("ParentEntryHugePage", 0, p2c, c.mem, c.next, c.log)
        ELSE IF c.kind # "Ok"
        THEN Outcome(c.kind, 0, p2c, c.mem, c.next, c.log)
        ELSE IF ~is_unused(c.mem[c.table][p1_index(page)])
        THEN Outcome("PageAlreadyMapped", f, p2c, c.mem, c.next, c.log)
        ELSE IF HUGE_PAGE \in flags
        \* set_frame asserts that the flags hold no HUGE_PAGE
        THEN Outcome("Panic", 0, p2c, c.mem, c.next, c.log)
        ELSE Outcome("Ok", 0, p2c,
                     [c.mem EXCEPT ![c.table][p1_index(page)] = set_addr(f, flags)],
                     c.next, c.log)

map_to_4kib(p2, memv, map, nxt, checks, page, f, flags, parent_table_flags) ==
    map_to_4kib_in_table(create_next_table(p2[p2_index(page)], parent_table_flags, map, nxt,
                                           checks, memv),
                         p2, page, f, flags)

\* unmap_4mib without the check that the entry is a huge page
unmap_4mib_no_size_check(p2, memv, nxt, page) ==
    LET p2_entry == p2[p2_index(page)] IN
    IF PRESENT \notin p2_entry.flags THEN Outcome("PageNotMapped", 0, p2, memv, nxt, <<>>)
    ELSE IF p2_entry.addr % Size4MiB # 0
    THEN Outcome("InvalidFrameAddress", p2_entry.addr, p2, memv, nxt, <<>>)
    ELSE Outcome("Ok", p2_entry.addr, [p2 EXCEPT ![p2_index(page)] = Unused], memv, nxt, <<>>)

unmap_4mib(p2, memv, nxt, page) ==
    LET p2_entry == p2[p2_index(page)] IN
    IF PRESENT \notin p2_entry.flags THEN Outcome("PageNotMapped", 0, p2, memv, nxt, <<>>)
    ELSE IF HUGE_PAGE \notin p2_entry.flags
    THEN Outcome("ParentEntryHugePage", 0, p2, memv, nxt, <<>>)
    ELSE IF p2_entry.addr % Size4MiB # 0
    THEN Outcome("InvalidFrameAddress", p2_entry.addr, p2, memv, nxt, <<>>)
    ELSE Outcome("Ok", p2_entry.addr, [p2 EXCEPT ![p2_index(page)] = Unused], memv, nxt, <<>>)

\* unmap_4kib returning the frame without clearing the entry
unmap_4kib_keeps_entry(p2, memv, nxt, page) ==
    LET t == next_table(p2[p2_index(page)]) IN
    IF t.err = "MappedToHugePage" THEN Outcome("ParentEntryHugePage", 0, p2, memv, nxt, <<>>)
    ELSE IF t.err = "NotMapped" THEN Outcome("PageNotMapped", 0, p2, memv, nxt, <<>>)
    ELSE
        LET f == frame(memv[t.table][p1_index(page)]) IN
        IF f.err = "FrameNotPresent" THEN Outcome("PageNotMapped", 0, p2, memv, nxt, <<>>)
        ELSE IF f.err = "HugeFrame" THEN Outcome("ParentEntryHugePage", 0, p2, memv, nxt, <<>>)
        ELSE Outcome("Ok", f.addr, p2, memv, nxt, <<>>)

\* unmap_4kib with the two walk errors converted the wrong way round
unmap_4kib_swapped_errors(p2, memv, nxt, page) ==
    LET t == next_table(p2[p2_index(page)]) IN
    IF t.err = "MappedToHugePage" THEN Outcome("PageNotMapped", 0, p2, memv, nxt, <<>>)
    ELSE IF t.err = "NotMapped" THEN Outcome("ParentEntryHugePage", 0, p2, memv, nxt, <<>>)
    ELSE
        LET f == frame(memv[t.table][p1_index(page)]) IN
        IF f.err = "FrameNotPresent" THEN Outcome("PageNotMapped", 0, p2, memv, nxt, <<>>)
        ELSE IF f.err = "HugeFrame" THEN Outcome("ParentEntryHugePage", 0, p2, memv, nxt, <<>>)
        ELSE Outcome("Ok", f.addr, p2,
                     [memv EXCEPT ![t.table][p1_index(page)] = Unused], nxt, <<>>)

unmap_4kib(p2, memv, nxt, page) ==
    LET t == next_table(p2[p2_index(page)]) IN
    IF t.err = "MappedToHugePage" THEN Outcome("ParentEntryHugePage", 0, p2, memv, nxt, <<>>)
    ELSE IF t.err = "NotMapped" THEN Outcome("PageNotMapped", 0, p2, memv, nxt, <<>>)
    ELSE
        LET f == frame(memv[t.table][p1_index(page)]) IN
        IF f.err = "FrameNotPresent" THEN Outcome("PageNotMapped", 0, p2, memv, nxt, <<>>)
        ELSE IF f.err = "HugeFrame" THEN Outcome("ParentEntryHugePage", 0, p2, memv, nxt, <<>>)
        ELSE Outcome("Ok", f.addr, p2,
                     [memv EXCEPT ![t.table][p1_index(page)] = Unused], nxt, <<>>)

update_flags_4mib(p2, memv, nxt, page, flags) ==
    LET p2_entry == p2[p2_index(page)] IN
    IF is_unused(p2_entry) THEN Outcome("PageNotMapped", 0, p2, memv, nxt, <<>>)
    ELSE Outcome("Ok", 0,
                 [p2 EXCEPT ![p2_index(page)] = set_flags(p2_entry, flags \cup {HUGE_PAGE})],
                 memv, nxt, <<>>)

\* update_flags_4kib writing the flags with set_addr(0, flags): the address is lost
update_flags_4kib_clears_addr(p2, memv, nxt, page, flags) ==
    LET t == next_table(p2[p2_index(page)]) IN
    IF t.err = "MappedToHugePage" THEN Outcome("ParentEntryHugePage", 0, p2, memv, nxt, <<>>)
    ELSE IF t.err = "NotMapped" THEN Outcome("PageNotMapped", 0, p2, memv, nxt, <<>>)
    ELSE IF is_unused(memv[t.table][p1_index(page)])
    THEN Outcome("PageNotMapped", 0, p2, memv, nxt, <<>>)
    ELSE Outcome("Ok", 0, p2,
                 [memv EXCEPT ![t.table][p1_index(page)] = set_addr(0, flags)], nxt, <<>>)

update_flags_4kib(p2, memv, nxt, page, flags) ==
    LET t == next_table(p2[p2_index(page)]) IN
    IF t.err = "MappedToHugePage" THEN Outcome("ParentEntryHugePage", 0, p2, memv, nxt, <<>>)
    ELSE IF t.err = "NotMapped" THEN Outcome("PageNotMapped", 0, p2, memv, nxt, <<>>)
    ELSE IF is_unused(memv[t.table][p1_index(page)])
    THEN Outcome("PageNotMapped", 0, p2, memv, nxt, <<>>)
    ELSE Outcome("Ok", 0, p2,
                 [memv EXCEPT ![t.table][p1_index(page)] = set_flags(@, flags)], nxt, <<>>)

(***************************************************************************)
(* Identity-mapping policy (memory.rs)                                     *)
(***************************************************************************)
\* Mapper::identity_map: map_to of the page at the frame's own address; map_to
\* passes the PRESENT and WRITABLE bits of the flags on as parent table flags
identity_map(size, p2, memv, map, nxt, checks, f, flags) ==
    IF size = Size4MiB THEN map_to_4mib(p2, memv, nxt, f, f, flags)
    ELSE map_to_4kib(p2, memv, map, nxt, checks, f, f, flags, flags \cap {PRESENT, WRITABLE})

\* Mapper<T>::update_flags for the page size T
update_flags(size, p2, memv, nxt, page, flags) ==
    IF size = Size4MiB THEN update_flags_4mib(p2, memv, nxt, page, flags)
    ELSE update_flags_4kib(p2, memv, nxt, page, flags)

\* Result<Page<T>, IdMapError> and what the call leaves behind: ret is the page of
\* Ok, (requested, actual) the payload of MappingIsNotIdentity and flags the payload
\* of AlreadyMappedDiffFlags
IdOutcome(kind, ret, requested, actual, flags, p2, memv, nxt, log) ==
    [kind |-> kind, ret |-> ret, requested |-> requested, actual |-> actual,
     flags |-> flags, p2 |-> p2, mem |-> memv, next |-> nxt, log |-> log]

\* what id_map returns once identity_map has returned m: Ok(page), or
\* FrameAllocationFailed for every MapToError (map_err(|_| ..))
id_map_mapped(m, my_frame) ==
    IF m.kind = "Ok" THEN IdOutcome("Ok", my_frame, 0, 0, {}, m.p2, m.mem, m.next, m.log)
    ELSE IF m.kind = "Panic" THEN IdOutcome("Panic", 0, 0, 0, {}, m.p2, m.mem, m.next, m.log)
    ELSE IdOutcome("FrameAllocationFailed", 0, 0, 0, {}, m.p2, m.mem, m.next, m.log)

\* id_map that reports the flags it was asked for in AlreadyMappedDiffFlags
id_map_reports_requested_flags(tr, size, p2, memv, map, nxt, checks, my_frame, add_flags) ==
    LET my_flags == {PRESENT} \cup add_flags
        Fail(kind, requested, actual, flags) ==
            IdOutcome(kind, 0, requested, actual, flags, p2, memv, nxt, <<>>)
    IN  IF tr.kind = "NotMapped"
        THEN id_map_mapped(identity_map(size, p2, memv, map, nxt, checks, my_frame, my_flags),
                           my_frame)
        ELSE IF tr.kind = "InvalidFrameAddress"
        THEN Fail("FrameAllocationFailed", 0, 0, {})
        ELSE IF tr.size = Size4KiB
        THEN IF containing_address(my_frame, Size4KiB) # tr.frame
             THEN Fail("MappingIsNotIdentity", containing_address(my_frame, Size4KiB), tr.frame, {})
             ELSE IF ~(my_flags \subseteq tr.flags)
             THEN Fail("AlreadyMappedDiffFlags", 0, 0, my_flags)
             ELSE IdOutcome("Ok", my_frame, 0, 0, {}, p2, memv, nxt, <<>>)
        ELSE IF ~(my_flags \subseteq tr.flags)
             THEN Fail("AlreadyMappedDiffFlags", 0, 0, my_flags)
             ELSE IF containing_address(my_frame, tr.size) # tr.frame
             THEN Fail("MappingIsNotIdentity", containing_address(my_frame, tr.size), tr.frame, {})
             ELSE IdOutcome("Ok", my_frame, 0, 0, {}, p2, memv, nxt, <<>>)

\* id_map that maps the frame without looking at what translate said
id_map_ignores_translate(tr, size, p2, memv, map, nxt, checks, my_frame, add_flags) ==
    id_map_mapped(identity_map(size, p2, memv, map, nxt, checks, my_frame,
                               {PRESENT} \cup add_flags),
                  my_frame)

\* id_map that stores the requested flags without PRESENT
id_map_omits_present(tr, size, p2, memv, map, nxt, checks, my_frame, add_flags) ==
    LET my_flags == {PRESENT} \cup add_flags
        Fail(kind, requested, actual, flags) ==
            IdOutcome(kind, 0, requested, actual, flags, p2, memv, nxt, <<>>)
    IN  IF tr.kind = "NotMapped"
        THEN id_map_mapped(identity_map(size, p2, memv, map, nxt, checks, my_frame, add_flags),
                           my_frame)
        ELSE IF tr.kind = "InvalidFrameAddress"
        THEN Fail("FrameAllocationFailed", 0, 0, {})
        ELSE IF tr.size = Size4KiB
        THEN IF containing_address(my_frame, Size4KiB) # tr.frame
             THEN Fail("MappingIsNotIdentity", containing_address(my_frame, Size4KiB), tr.frame, {})
             ELSE IF ~(my_flags \subseteq tr.flags)
             THEN Fail("AlreadyMappedDiffFlags", 0, 0, tr.flags)
             ELSE IdOutcome("Ok", my_frame, 0, 0, {}, p2, memv, nxt, <<>>)
        ELSE IF ~(my_flags \subseteq tr.flags)
             THEN Fail("AlreadyMappedDiffFlags", 0, 0, tr.flags)
             ELSE IF containing_address(my_frame, tr.size) # tr.frame
             THEN Fail("MappingIsNotIdentity", containing_address(my_frame, tr.size), tr.frame, {})
             ELSE IdOutcome("Ok", my_frame, 0, 0, {}, p2, memv, nxt, <<>>)

\* id_map::<T>(mapper, frame_allocator, my_frame, add_flags), T of the given size;
\* tr is what mapper.translate answered for the frame's address; add_flags is the
\* flag set of Some(..), {} for None. The arm for a 4 KiB mapping compares the
\* frames first and the flags second, the arms for the larger mappings the flags
\* first.
id_map(tr, size, p2, memv, map, nxt, checks, my_frame, add_flags) ==
    LET my_flags == {PRESENT} \cup add_flags
        Fail(kind, requested, actual, flags) ==
            IdOutcome(kind, 0, requested, actual, flags, p2, memv, nxt, <<>>)
    IN  IF tr.kind = "NotMapped"
        THEN id_map_mapped(identity_map(size, p2, memv, map, nxt, checks, my_frame, my_flags),
                           my_frame)
        ELSE IF tr.kind = "InvalidFrameAddress"
        THEN Fail("FrameAllocationFailed", 0, 0, {})
        ELSE IF tr.size = Size4KiB
        THEN IF containing_address(my_frame, Size4KiB) # tr.frame
             THEN Fail("MappingIsNotIdentity", containing_address(my_frame, Size4KiB), tr.frame, {})
             ELSE IF ~(my_flags \subseteq tr.flags)
             THEN Fail("AlreadyMappedDiffFlags", 0, 0, tr.flags)
             ELSE IdOutcome("Ok", my_frame, 0, 0, {}, p2, memv, nxt, <<>>)
        ELSE IF ~(my_flags \subseteq tr.flags)
             THEN Fail("AlreadyMappedDiffFlags", 0, 0, tr.flags)
             ELSE IF containing_address(my_frame, tr.size) # tr.frame
             THEN Fail("MappingIsNotIdentity", containing_address(my_frame, tr.size), tr.frame, {})
             ELSE IdOutcome("Ok", my_frame, 0, 0, {}, p2, memv, nxt, <<>>)

id_map_nocache(tr, size, p2, memv, map, nxt, checks, my_frame, add_flags) ==
    id_map(tr, size, p2, memv, map, nxt, checks, my_frame, {NO_CACHE} \cup add_flags)

\* what id_map_nocache_update_flags makes of the result r of id_map_nocache:
\* AlreadyMappedDiffFlags becomes update_flags(page, PRESENT | my_flags).unwrap()
\* and Ok(page); the unwrap panics when update_flags fails
id_map_updated(r, size, p2, memv, nxt, my_frame, my_flags) ==
    IF r.kind = "AlreadyMappedDiffFlags"
    THEN LET u == update_flags(size, p2, memv, nxt, my_frame, {PRESENT} \cup my_flags) IN
         IF u.kind = "Ok" THEN IdOutcome("Ok", my_frame, 0, 0, {}, u.p2, u.mem, u.next, <<>>)
         ELSE IdOutcome("Panic", 0, 0, 0, {}, u.p2, u.mem, u.next, <<>>)
    ELSE r

id_map_nocache_update_flags(tr, size, p2, memv, map, nxt, checks, my_frame, add_flags) ==
    id_map_updated(id_map_nocache(tr, size, p2, memv, map, nxt, checks, my_frame,
                                  {NO_CACHE} \cup add_flags),
                   size, p2, memv, nxt, my_frame, {NO_CACHE} \cup add_flags)

(***************************************************************************)
(* Bootloader page tables (external/bootloader mmu.rs)                     *)
(***************************************************************************)
ONE_MEG == 1048576
TWO_MEG == Size2MiB
ONE_GIG == 1073741824
\* entries per table of the long-mode hierarchy (9 index bits per level)
BootEntryCount == 512
BootIdx == 0..(BootEntryCount - 1)
\* the legacy video address
VgaAddr == 753664

ZeroBootTable == [i \in BootIdx |-> Unused]
\* what the statically reserved table storage holds before anyone zeroes it
StaleBootTable == [i \in BootIdx |-> [addr |-> 7 * Size4KiB, flags |-> {PRESENT, WRITABLE}]]

\* region r holds addr: start_addr() <= addr < end_addr(), compared in frame numbers
\* (the bounds of a region are multiples of the frame size, and the byte address of
\* a region's end at or beyond 2 GiB is more than the model's integers hold)
region_holds(r, addr) ==
    r.start_frame_number <= addr \div Size4KiB /\ addr \div Size4KiB < r.end_frame_number

\* memory_map.get_region_by_addr(addr): the index of the region that holds addr,
\* 0 for None
get_region_by_addr(map, addr) ==
    LET hits == {i \in DOMAIN map : region_holds(map[i], addr)}
    IN  IF hits = {} THEN 0 ELSE CHOOSE i \in hits : \A j \in hits : i <= j

\* generate_page_table that maps the pages no region holds read-only instead of
\* leaving them out
pde_entry_maps_unclassified(map, pdpe_i, pde_i) ==
    LET phys_addr == pdpe_i * ONE_GIG + pde_i * TWO_MEG
        mem_area == get_region_by_addr(map, phys_addr)
    IN  IF mem_area # 0 /\ map[mem_area].region_type = Usable
        THEN set_addr(phys_addr, {PRESENT, WRITABLE, HUGE_PAGE})
        ELSE set_addr(phys_addr, {PRESENT, HUGE_PAGE, NO_EXECUTE})

\* the entry the loop over a pde writes at pde_i of the table of pdpe_i
pde_entry(map, pdpe_i, pde_i) ==
    LET phys_addr == pdpe_i * ONE_GIG + pde_i * TWO_MEG
        mem_area == get_region_by_addr(map, phys_addr)
    IN  IF mem_area = 0 THEN Unused
        ELSE IF map[mem_area].region_type = Usable
        THEN set_addr(phys_addr, {PRESENT, WRITABLE, HUGE_PAGE})
        ELSE set_addr(phys_addr, {PRESENT, HUGE_PAGE, NO_EXECUTE})

\* generate_page_table(p4, p3, p2_tables_start, p2_tables_end, boot_info): the
\* tables it leaves and the p4 address it returns. PageTableAllocator::next hands out
\* the tables between p2_tables_start and p2_tables_end; when there are fewer than
\* four the expect panics, with the tables built so far in place. The p2 tables whose
\* contents the model follows are the ones in the domain of memv.
generate_page_table(memv, map, p4, p3, p2_tables_start, p2_tables_end) ==
    LET avail == (p2_tables_end - p2_tables_start) \div Size4KiB
        built == IF avail < 4 THEN avail ELSE 4
        pde_addr(pdpe_i) == p2_tables_start + pdpe_i * Size4KiB
    IN  [kind |-> IF avail < 4 THEN "Panic" ELSE "Ok",
         ret |-> p4,
         mem |-> [a \in DOMAIN memv |->
                    IF a = p4
                    THEN [ZeroBootTable EXCEPT ![0] = set_addr(p3, {PRESENT, WRITABLE})]
                    ELSE IF a = p3
                    THEN [i \in BootIdx |->
                            IF i < built THEN set_addr(pde_addr(i), {PRESENT, WRITABLE})
                            ELSE Unused]
                    ELSE IF \E k \in 0..(built - 1) : a = pde_addr(k)
                    \* pde.zero() and the loop over the entries of the pde
                    THEN [i \in BootIdx |->
                            pde_entry(map, (a - p2_tables_start) \div Size4KiB, i)]
                    ELSE memv[a]]]

\* remap_first_2mb_with_4kb that does not skip the first entry of the p1 table
pte_entry_no_skip(pte_i, stack_guard, smp_trampoline_start, smp_trampoline_end) ==
    LET addr == pte_i * Size4KiB IN
    IF addr = stack_guard THEN set_addr(addr, {PRESENT})
    ELSE IF addr >= smp_trampoline_start /\ addr < smp_trampoline_end
    THEN set_addr(addr, {PRESENT, WRITABLE})
    ELSE IF addr <= ONE_MEG THEN set_addr(addr, {PRESENT, NO_CACHE, NO_EXECUTE})
    ELSE set_addr(addr, {PRESENT})

\* remap_first_2mb_with_4kb that looks at the trampoline range before the stack guard
pte_entry_trampoline_first(pte_i, stack_guard, smp_trampoline_start, smp_trampoline_end) ==
    LET addr == pte_i * Size4KiB IN
    IF pte_i = 0 THEN Unused
    ELSE IF addr >= smp_trampoline_start /\ addr < smp_trampoline_end
    THEN set_addr(addr, {PRESENT, WRITABLE})
    ELSE IF addr = stack_guard THEN set_addr(addr, {PRESENT})
    ELSE IF addr <= ONE_MEG THEN set_addr(addr, {PRESENT, NO_CACHE, NO_EXECUTE})
    ELSE set_addr(addr, {PRESENT})

\* the entry the loop of remap_first_2mb_with_4kb leaves at pte_i of the p1 table:
\* the loop skips entry 0, which stays zeroed
\* remap_first_2mb_with_4kb whose legacy boundary leaves out the page at 1 MiB and
\* takes the boundary before the trampoline range
pte_entry_legacy_first(pte_i, stack_guard, smp_trampoline_start, smp_trampoline_end) ==
    LET addr == pte_i * Size4KiB IN
    IF pte_i = 0 THEN Unused
    ELSE IF addr = stack_guard THEN set_addr(addr, {PRESENT})
    ELSE IF addr < ONE_MEG THEN set_addr(addr, {PRESENT, NO_CACHE, NO_EXECUTE})
    ELSE IF addr >= smp_trampoline_start /\ addr < smp_trampoline_end
    THEN set_addr(addr, {PRESENT, WRITABLE})
    ELSE set_addr(addr, {PRESENT})

\* the entry the loop over the p1 table leaves at pte_i
pte_entry(pte_i, stack_guard, smp_trampoline_start, smp_trampoline_end) ==
    LET addr == pte_i * Size4KiB IN
    IF pte_i = 0 THEN Unused
    ELSE IF addr = stack_guard THEN set_addr(addr, {PRESENT})
    ELSE IF addr >= smp_trampoline_start /\ addr < smp_trampoline_end
    THEN set_addr(addr, {PRESENT, WRITABLE})
    ELSE IF addr <= ONE_MEG THEN set_addr(addr, {PRESENT, NO_CACHE, NO_EXECUTE})
    ELSE set_addr(addr, {PRESENT})

\* the p1 table after the loop and the write of the video page
remapped_p1(stack_guard, smp_trampoline_start, smp_trampoline_end) ==
    [[i \in BootIdx |-> pte_entry(i, stack_guard, smp_trampoline_start, smp_trampoline_end)]
       EXCEPT ![(VgaAddr \div Size4KiB) % BootEntryCount]
                = set_addr(VgaAddr, {PRESENT, WRITABLE, NO_CACHE, NO_EXECUTE})]

\* remap_first_2mb_with_4kb with the video page written before the loop
remap_vga_first(memv, p3, p1, stack_guard, smp_trampoline_start, smp_trampoline_end) ==
    [memv EXCEPT
       ![p1] = [i \in BootIdx |->
                  pte_entry(i, stack_guard, smp_trampoline_start, smp_trampoline_end)],
       ![memv[p3][0].addr][0] = set_addr(p1, {PRESENT, WRITABLE})]

\* remap_first_2mb_with_4kb(p3, p1, stack_guard, smp_trampoline_start,
\* smp_trampoline_end): the p1 table is zeroed and filled, and entry 0 of the p2
\* table that entry 0 of p3 points to is pointed at it
remap_first_2mb_with_4kb(memv, p3, p1, stack_guard, smp_trampoline_start, smp_trampoline_end) ==
    [memv EXCEPT
       ![p1] = remapped_p1(stack_guard, smp_trampoline_start, smp_trampoline_end),
       ![memv[p3][0].addr][0] = set_addr(p1, {PRESENT, WRITABLE})]

\* the translation the processor makes of addr in long mode with the p4 table at p4:
\* a walk that ends at the first entry that is not present, at a huge-page entry of
\* a p2 table, or at an entry of a p1 table
boot_translate(memv, p4, addr) ==
    LET e4 == memv[p4][((addr \div ONE_GIG) \div BootEntryCount) % BootEntryCount] IN
    IF PRESENT \notin e4.flags THEN NotMapped
    ELSE LET e3 == memv[e4.addr][(addr \div ONE_GIG) % BootEntryCount] IN
         IF PRESENT \notin e3.flags THEN NotMapped
         ELSE LET e2 == memv[e3.addr][(addr \div TWO_MEG) % BootEntryCount] IN
              IF PRESENT \notin e2.flags THEN NotMapped
              ELSE IF HUGE_PAGE \in e2.flags
              THEN Mapped(Size2MiB, e2.addr, addr % TWO_MEG, e2.flags)
              ELSE LET e1 == memv[e2.addr][(addr \div Size4KiB) % BootEntryCount] IN
                   IF PRESENT \notin e1.flags THEN NotMapped
                   ELSE Mapped(Size4KiB, e1.addr, addr % Size4KiB, e1.flags)

(***************************************************************************)
(* ACPI tables (acpi.rs)                                                   *)
(***************************************************************************)
\* Acpi: apics is the number of local APICs parsed (0 for None)
Acpi_new == [apics |-> 0, mask_pics |-> FALSE]
OptionNone == [tag |-> "None", acpi |-> Acpi_new]
OptionSome(a) == [tag |-> "Some", acpi |-> a]

\* .unwrap() of the second call r2 of a sequence whose calls so far left the log
unwrap_after(log, r2) ==
    [r2 EXCEPT !.kind = IF r2.kind = "Ok" THEN "Ok" ELSE "Panic", !.log = log \o r2.log]

\* map_and_read_phys once the id_map of the first frame has returned r
map_and_read_phys_second(r, map, checks, f, frame2) ==
    IF r.kind # "Ok" THEN [r EXCEPT !.kind = "Panic"]
    ELSE IF f = frame2 THEN r
    ELSE unwrap_after(r.log,
                      id_map(translate(r.p2, r.mem, frame2), Size4KiB, r.p2, r.mem, map,
                             r.next, checks, frame2, {}))

\* map_and_read_phys::<T>(mapper, frame_allocator, addr), size the size of T: the
\* frames of addr and of addr + size are identity-mapped and the results unwrapped
map_and_read_phys(p2, memv, map, nxt, checks, addr, size) ==
    map_and_read_phys_second(
        id_map(translate(p2, memv, containing_address(addr, Size4KiB)), Size4KiB, p2, memv,
               map, nxt, checks, containing_address(addr, Size4KiB), {}),
        map, checks, containing_address(addr, Size4KiB),
        containing_address(addr + size, Size4KiB))

\* Acpi::init as far as the mapper sees it: the reads the firmware's tables make it
\* do, one map_and_read_phys after the other; o is what the reads so far left
RECURSIVE Acpi_init(_, _, _, _)
Acpi_init(reads, o, map, checks) ==
    IF reads = <<>> \/ o.kind # "Ok" THEN o
    ELSE Acpi_init(Tail(reads),
                   unwrap_after(o.log,
                                map_and_read_phys(o.p2, o.mem, map, o.next, checks,
                                                  Head(reads).addr, Head(reads).size)),
                   map, checks)

\* what init_acpi_table leaves: the static, the tables and the allocator cursor
AcpiOutcome(kind, tables, p2, memv, nxt, log) ==
    [kind |-> kind, tables |-> tables, p2 |-> p2, mem |-> memv, next |-> nxt, log |-> log]

\* the None arm once acpi.init has run with outcome o: init panics when a read fails
\* or the tables do not pass its checks, and then nothing is stored
init_acpi_table_store(o, fw) ==
    IF o.kind = "Ok" /\ fw.valid
    THEN AcpiOutcome("Ok", OptionSome([apics |-> fw.apics, mask_pics |-> fw.mask_pics]),
                     o.p2, o.mem, o.next, o.log)
    ELSE AcpiOutcome("Panic", OptionNone, o.p2, o.mem, o.next, o.log)

\* init_acpi_table that initialises again when the static is already set
init_acpi_table_twice(tables, fw, p2, memv, map, nxt, checks) ==
    init_acpi_table_store(
        Acpi_init(fw.reads, IdOutcome("Ok", 0, 0, 0, {}, p2, memv, nxt, <<>>), map, checks),
        fw)

\* init_acpi_table(mapper, frame_allocator) with the static holding tables; fw is
\* what the firmware's tables hold
init_acpi_table(tables, fw, p2, memv, map, nxt, checks) ==
    IF tables.tag = "None"
    THEN init_acpi_table_store(
             Acpi_init(fw.reads, IdOutcome("Ok", 0, 0, 0, {}, p2, memv, nxt, <<>>), map, checks),
             fw)
    ELSE AcpiOutcome("Panic", tables, p2, memv, nxt, <<>>)

(***************************************************************************)
(* State machine                                                           *)
(***************************************************************************)
\* calls the model follows once the allocator has run dry
MaxExhaustedCalls == 2
\* allocate_frame calls the model follows when the two sizes are mixed
MaxMixedCalls == 4

\* the memory the mapper's allocator hands out: one frame, at 0x1000
MapperMemoryMap == <<Region(0, 1, Reserved), Region(1, 2, Usable)>>
TableFrames == {Size4KiB}

\* one usable region [0, 10 MiB)
TenMiBMap == <<Region(0, (10 * 1024 * 1024) \div Size4KiB, Usable)>>
\* the memory maps the allocator alone is run on: regions disjoint and in address order
AllocMemoryMaps ==
    { TenMiBMap,
      <<Region(0, 2, Usable), Region(2, 4, Reserved), Region(4, 7, Usable)>>,
      <<Region(0, 159, Usable), Region(159, 256, Reserved), Region(256, 1280, Usable)>>,
      <<Region(512, 1536, Usable)>> }

\* detail of an operation that has none
NoDetail ==
    [tr |-> NotMapped, size |-> 0, requested |-> 0, actual |-> 0, flags |-> {},
     p2_tables_end |-> 0, stack_guard |-> 0, smp_trampoline_start |-> 0,
     smp_trampoline_end |-> 0]
Result(op, page, f, flags, pflags, kind, ret) ==
    [op |-> op, page |-> page, frame |-> f, flags |-> flags, pflags |-> pflags,
     kind |-> kind, ret |-> ret, detail |-> NoDetail]

Halted == res.kind = "Panic"
Pure4KiB == {k \in DOMAIN returned : returned[k].size # Size4KiB} = {}
ExhaustedCalls == Cardinality({k \in DOMAIN returned : returned[k].kind = "None"})
\* bound on the allocate_frame calls followed
MayAllocate ==
    /\ ExhaustedCalls < MaxExhaustedCalls
    /\ Len(returned) < MaxMixedCalls \/ Pure4KiB

\* no call is between two of its writes
Idle == [at |-> "idle", page |-> 0, insert_flags |-> {}, frame |-> 0, created |-> FALSE]
\* the control registers as the 32-bit loader leaves them: write protection and
\* no-execute off, CR3 without a translation root
ResetCpu == [write_protect |-> FALSE, no_execute_enable |-> FALSE, cr3 |-> 0, cr3_flags |-> {}]

Init ==
    /\ level_2_table = [i \in P2Idx |-> Unused]
    /\ mem = [f \in TableFrames |-> StaleTable]
    /\ memory_map = MapperMemoryMap
    /\ next = 0
    /\ overflow_checks = FALSE
    /\ returned = <<>>
    /\ ACPI_TABLES = OptionNone
    /\ pc = Idle
    /\ cpu = ResetCpu
    /\ res = Result("new", 0, 0, {}, {}, "Ok", 0)

InitAlloc ==
    /\ level_2_table = [i \in P2Idx |-> Unused]
    /\ mem = [f \in TableFrames |-> StaleTable]
    /\ memory_map \in AllocMemoryMaps
    /\ next = 0
    /\ overflow_checks \in BOOLEAN
    /\ returned = <<>>
    /\ ACPI_TABLES = OptionNone
    /\ pc = Idle
    /\ cpu = ResetCpu
    /\ res = Result("new", 0, 0, {}, {}, "Ok", 0)

\* An operation of the mapper took effect with outcome o.
Apply(o, op, page, f, flags, pflags) ==
    /\ level_2_table' = o.p2
    /\ mem' = o.mem
    /\ next' = o.next
    /\ returned' = returned \o o.log
    /\ res' = Result(op, page, f, flags, pflags, o.kind, o.ret)
    /\ UNCHANGED <<memory_map, overflow_checks, ACPI_TABLES, pc, cpu>>

MapTo4MiB ==
    \E page \in Pages4MiB, f \in Frames4MiB, flags \in FlagSets :
        /\ ~Halted
        /\ Apply(map_to_4mib(level_2_table, mem, next, page, f, flags),
                 "map_to_4mib", page, f, flags, {})

MapTo4KiB ==
    \E page \in Pages4KiB, f \in Frames4KiB, flags \in FlagSets, pflags \in FlagSets :
        /\ ~Halted
        /\ is_unused(level_2_table[p2_index(page)]) => MayAllocate
        /\ Apply(map_to_4kib(level_2_table, mem, memory_map, next, overflow_checks,
                             page, f, flags, pflags),
                 "map_to_4kib", page, f, flags, pflags)

Unmap4MiB ==
    \E page \in Pages4MiB :
        /\ ~Halted
        /\ Apply(unmap_4mib(level_2_table, mem, next, page), "unmap_4mib", page, 0, {}, {})

Unmap4KiB ==
    \E page \in Pages4KiB :
        /\ ~Halted
        /\ Apply(unmap_4kib(level_2_table, mem, next, page), "unmap_4kib", page, 0, {}, {})

UpdateFlags4MiB ==
    \E page \in Pages4MiB, flags \in FlagSets :
        /\ ~Halted
        /\ Apply(update_flags_4mib(level_2_table, mem, next, page, flags),
                 "update_flags_4mib", page, 0, flags, {})

UpdateFlags4KiB ==
    \E page \in Pages4KiB, flags \in FlagSets :
        /\ ~Halted
        /\ Apply(update_flags_4kib(level_2_table, mem, next, page, flags),
                 "update_flags_4kib", page, 0, flags, {})

AllocateFrame4KiB ==
    LET a == allocate_frame_4kib(memory_map, next, overflow_checks) IN
    /\ ~Halted
    /\ MayAllocate
    /\ next' = a.next
    /\ returned' = IF a.kind = "Panic" THEN returned
                   ELSE Append(returned, [size |-> Size4KiB, kind |-> a.kind, addr |-> a.addr])
    /\ res' = Result("allocate_frame_4kib", 0, 0, {}, {}, a.kind, a.addr)
    /\ UNCHANGED <<level_2_table, mem, memory_map, overflow_checks, ACPI_TABLES, pc, cpu>>

AllocateFrame2MiB ==
    LET a == allocate_frame_2mib(memory_map, next, overflow_checks) IN
    /\ ~Halted
    /\ MayAllocate
    /\ Len(returned) < MaxMixedCalls
    /\ next' = a.next
    /\ returned' = IF a.kind = "Panic" THEN returned
                   ELSE Append(returned, [size |-> Size2MiB, kind |-> a.kind, addr |-> a.addr])
    /\ res' = Result("allocate_frame_2mib", 0, 0, {}, {}, a.kind, a.addr)
    /\ UNCHANGED <<level_2_table, mem, memory_map, overflow_checks, ACPI_TABLES, pc, cpu>>

Next ==
    \/ MapTo4MiB
    \/ MapTo4KiB
    \/ Unmap4MiB
    \/ Unmap4KiB
    \/ UpdateFlags4MiB
    \/ UpdateFlags4KiB
    \/ AllocateFrame4KiB

Spec == Init /\ [][Next]_vars

NextAlloc ==
    \/ AllocateFrame4KiB
    \/ AllocateFrame2MiB

SpecAlloc == InitAlloc /\ [][NextAlloc]_vars

\* what id_map is called with: frames at the addresses of the pages followed
IdMapSizes == {Size4KiB, Size4MiB}
IdMapFrames(size) == IF size = Size4MiB THEN Pages4MiB ELSE Pages4KiB
IdMapFlags == {{}, {WRITABLE}, {NO_CACHE}, {HUGE_PAGE}}
\* what mapper.translate can answer: id_map takes any mapper that implements
\* Translate. The tables of MappedPageTable answer translate(..); the entries it
\* reads never hold an unaligned address, so the alignment violation is the answer
\* of a mapper whose tables are corrupted.
TranslateAnswers(addr) ==
    {translate(level_2_table, mem, addr), InvalidFrameAddress(addr + 1)}

\* An operation of the identity-mapping policy took effect with outcome o.
ApplyIdMap(o, op, tr, size, my_frame, add_flags) ==
    /\ level_2_table' = o.p2
    /\ mem' = o.mem
    /\ next' = o.next
    /\ returned' = returned \o o.log
    /\ res' = [Result(op, my_frame, my_frame, add_flags, {}, o.kind, o.ret)
                 EXCEPT !.detail = [NoDetail EXCEPT !.tr = tr, !.size = size,
                                                    !.requested = o.requested,
                                                    !.actual = o.actual, !.flags = o.flags]]
    /\ UNCHANGED <<memory_map, overflow_checks, ACPI_TABLES, pc, cpu>>

IdMap ==
    \E size \in IdMapSizes : \E my_frame \in IdMapFrames(size), add_flags \in IdMapFlags :
        \E tr \in TranslateAnswers(my_frame) :
            /\ ~Halted
            /\ (size = Size4KiB /\ is_unused(level_2_table[p2_index(my_frame)])) => MayAllocate
            /\ ApplyIdMap(id_map(tr, size, level_2_table, mem, memory_map, next,
                                 overflow_checks, my_frame, add_flags),
                          "id_map", tr, size, my_frame, add_flags)

IdMapNocacheUpdateFlags ==
    \E size \in IdMapSizes : \E my_frame \in IdMapFrames(size), add_flags \in IdMapFlags :
        \E tr \in TranslateAnswers(my_frame) :
            /\ ~Halted
            /\ (size = Size4KiB /\ is_unused(level_2_table[p2_index(my_frame)])) => MayAllocate
            /\ ApplyIdMap(id_map_nocache_update_flags(tr, size, level_2_table, mem, memory_map,
                                                      next, overflow_checks, my_frame, add_flags),
                          "id_map_nocache_update_flags", tr, size, my_frame, add_flags)

NextIdMap ==
    \/ IdMap
    \/ IdMapNocacheUpdateFlags
    \/ MapTo4MiB
    \/ Unmap4MiB
    \/ Unmap4KiB
    \/ AllocateFrame4KiB

SpecIdMap == Init /\ [][NextIdMap]_vars

\* translate on its own: level-2 tables as map of huge pages leaves them, in three
\* slots whose indices differ in the two lowest index bits
TranslateP2Idx == {0, 1, 3}
HugeEntries ==
    {set_addr(f, flags \cup {HUGE_PAGE}) :
        f \in {0, Size4MiB, 3 * Size4MiB}, flags \in {{PRESENT}, {PRESENT, WRITABLE}}}
TranslateAddrs ==
    {i2 * Size4MiB + off :
        i2 \in TranslateP2Idx,
        off \in {0, 5, Size4KiB, Size2MiB - 1, Size2MiB, Size2MiB + 5, Size4MiB - 1}}

InitTranslate ==
    /\ level_2_table \in [TranslateP2Idx -> HugeEntries \cup {Unused}]
    /\ mem = [f \in TableFrames |-> StaleTable]
    /\ memory_map = MapperMemoryMap
    /\ next = 0
    /\ overflow_checks = FALSE
    /\ returned = <<>>
    /\ ACPI_TABLES = OptionNone
    /\ pc = Idle
    /\ cpu = ResetCpu
    /\ res = Result("new", 0, 0, {}, {}, "Ok", 0)

Translate ==
    \E addr \in TranslateAddrs :
        LET tr == translate(level_2_table, mem, addr) IN
        /\ res' = [Result("translate", addr, 0, {}, {}, tr.kind, tr.offset)
                     EXCEPT !.detail = [NoDetail EXCEPT !.tr = tr]]
        /\ UNCHANGED <<level_2_table, mem, memory_map, next, overflow_checks, returned,
                       ACPI_TABLES, pc, cpu>>

NextTranslate == Translate

SpecTranslate == InitTranslate /\ [][NextTranslate]_vars

\* what the firmware's ACPI tables can hold: the reads Acpi::init makes (the first
\* at 0x40e, the pointer to the EBDA), whether they pass its checks, and the MADT
AcpiFirmware ==
    {[reads |-> r, valid |-> v, apics |-> n, mask_pics |-> n = 2] :
        r \in {<<[addr |-> 1038, size |-> 2]>>,
               <<[addr |-> 1038, size |-> 2], [addr |-> Size4KiB - 16, size |-> 20]>>},
        v \in BOOLEAN, n \in {1, 2}}

\* init_acpi_table took effect with outcome o.
ApplyAcpi(o, fw) ==
    /\ ACPI_TABLES' = o.tables
    /\ level_2_table' = o.p2
    /\ mem' = o.mem
    /\ next' = o.next
    /\ returned' = returned \o o.log
    /\ res' = Result("init_acpi_table", 0, 0, {}, {}, o.kind, fw.apics)
    /\ UNCHANGED <<memory_map, overflow_checks, pc, cpu>>

InitAcpiTable ==
    \E fw \in AcpiFirmware :
        /\ ~Halted
        /\ is_unused(level_2_table[p2_index(0)]) => MayAllocate
        /\ ApplyAcpi(init_acpi_table(ACPI_TABLES, fw, level_2_table, mem, memory_map, next,
                                     overflow_checks),
                     fw)

\* get_acpi_table: ACPI_TABLES.as_ref().unwrap()
GetAcpiTable ==
    /\ ~Halted
    /\ res' = Result("get_acpi_table", 0, 0, {}, {},
                     IF ACPI_TABLES.tag = "None" THEN "Panic" ELSE "Ok",
                     ACPI_TABLES.acpi.apics)
    /\ UNCHANGED <<level_2_table, mem, memory_map, next, overflow_checks, returned,
                   ACPI_TABLES, pc, cpu>>

NextAcpi ==
    \/ InitAcpiTable
    \/ GetAcpiTable
    \/ MapTo4MiB
    \/ Unmap4MiB
    \/ Unmap4KiB
    \/ AllocateFrame4KiB

SpecAcpi == Init /\ [][NextAcpi]_vars

\* where the linker puts the bootloader's tables
P4Addr == 16 * Size4KiB
P3Addr == 17 * Size4KiB
P2TablesStart == 18 * Size4KiB
P1Addr == 24 * Size4KiB
\* the gigabytes of the address space whose p2 tables the model follows
BootGigs == 1
BootTableAddrs ==
    {P4Addr, P3Addr, P1Addr} \cup {P2TablesStart + k * Size4KiB : k \in 0..(BootGigs - 1)}
\* the end of the storage for p2 tables: room for four tables, or for three
P2TablesEnds == {P2TablesStart + 4 * Size4KiB, P2TablesStart + 3 * Size4KiB}
\* frames in 4 GiB
FramesIn4GiB == 4 * (ONE_GIG \div Size4KiB)
\* the memory maps the firmware reports: all of 4 GiB usable; a 128 MiB machine with
\* the legacy hole below 1 MiB and reserved areas at the end of RAM and below 4 GiB;
\* 512 MiB usable and the rest reserved; and RAM that reaches beyond 4 GiB
BootMemoryMaps ==
    { <<Region(0, FramesIn4GiB, Usable)>>,
      <<Region(0, 159, Usable), Region(159, 256, Reserved), Region(256, 32736, Usable),
        Region(32736, 32768, Reserved), Region(FramesIn4GiB - 64, FramesIn4GiB, Reserved)>>,
      <<Region(0, FramesIn4GiB \div 8, Usable),
        Region(FramesIn4GiB \div 8, FramesIn4GiB, Reserved)>>,
      <<Region(0, 159, Usable), Region(159, 256, Reserved),
        Region(256, 2 * FramesIn4GiB, Usable)>> }
\* page-aligned stack-guard addresses inside the first 2 MiB
StackGuards ==
    {0, Size4KiB, 7 * Size4KiB, 9 * Size4KiB, VgaAddr, ONE_MEG + 80 * Size4KiB,
     TWO_MEG - Size4KiB}
\* SMP trampoline ranges <<start, end>>: one page, three pages, empty, and one that
\* reaches over the video page
TrampolineRanges ==
    {<<8 * Size4KiB, 9 * Size4KiB>>, <<7 * Size4KiB, 10 * Size4KiB>>, <<0, 0>>,
     <<8 * Size4KiB, VgaAddr + Size4KiB>>}

\* the control registers when setup_mmu is called: the bits it sets may be on
\* already, CR3 holds no root yet, and its flag bits are whatever the loader left
BootCpus ==
    {[write_protect |-> wp, no_execute_enable |-> nxe, cr3 |-> 0, cr3_flags |-> f] :
        wp \in BOOLEAN, nxe \in BOOLEAN, f \in {{}, {"PAGE_LEVEL_WRITETHROUGH"}}}

InitBoot ==
    /\ level_2_table = [i \in P2Idx |-> Unused]
    /\ mem = [a \in BootTableAddrs |-> StaleBootTable]
    /\ memory_map \in BootMemoryMaps
    /\ next = 0
    /\ overflow_checks = FALSE
    /\ returned = <<>>
    /\ ACPI_TABLES = OptionNone
    /\ pc = Idle
    /\ cpu \in BootCpus
    /\ res = Result("new", 0, 0, {}, {}, "Ok", 0)

\* generate_page_table took effect with outcome o.
ApplyGenerate(o, p2_tables_end) ==
    /\ mem' = o.mem
    /\ res' = [Result("generate_page_table", 0, 0, {}, {}, o.kind, o.ret)
                 EXCEPT !.detail = [NoDetail EXCEPT !.p2_tables_end = p2_tables_end]]
    /\ UNCHANGED <<level_2_table, memory_map, next, overflow_checks, returned, ACPI_TABLES, pc, cpu>>

GeneratePageTable ==
    \E p2_tables_end \in P2TablesEnds :
        /\ res.op = "new"
        /\ ApplyGenerate(generate_page_table(mem, memory_map, P4Addr, P3Addr, P2TablesStart,
                                             p2_tables_end),
                         p2_tables_end)

RemapFirst2MbWith4Kb ==
    \E stack_guard \in StackGuards, smp \in TrampolineRanges :
        /\ res.op = "generate_page_table" /\ res.kind = "Ok"
        /\ mem' = remap_first_2mb_with_4kb(mem, P3Addr, P1Addr, stack_guard, smp[1], smp[2])
        /\ res' = [Result("remap_first_2mb_with_4kb", 0, 0, {}, {}, "Ok", 0)
                     EXCEPT !.detail = [NoDetail EXCEPT !.stack_guard = stack_guard,
                                                        !.smp_trampoline_start = smp[1],
                                                        !.smp_trampoline_end = smp[2]]]
        /\ UNCHANGED <<level_2_table, memory_map, next, overflow_checks, returned,
                       ACPI_TABLES, pc, cpu>>

\* setup_mmu with the root loaded before no-execute is enabled
setup_mmu_cr3_before_efer(c, statement, p4_physical) ==
    IF statement = 1 THEN [c EXCEPT !.write_protect = TRUE]
    ELSE IF statement = 2 THEN [c EXCEPT !.cr3 = p4_physical]
    ELSE [c EXCEPT !.no_execute_enable = TRUE]

\* setup_mmu(p4_physical): the control registers after its first, second and third
\* statement, from the registers c before that statement. Each statement reads the
\* register, sets what it sets and writes the register back; Cr3::write takes the
\* flags Cr3::read returned.
setup_mmu(c, statement, p4_physical) ==
    IF statement = 1 THEN [c EXCEPT !.write_protect = TRUE]
    ELSE IF statement = 2 THEN [c EXCEPT !.no_execute_enable = TRUE]
    ELSE [c EXCEPT !.cr3 = p4_physical]

\* a statement of setup_mmu took effect; the call stands at the position at
ApplySetupMmu(c, at, p4_physical) ==
    /\ cpu' = c
    /\ pc' = [Idle EXCEPT !.at = at, !.frame = p4_physical]
    /\ res' = Result("setup_mmu", 0, p4_physical, {}, {},
                     IF at = "idle" THEN "Ok" ELSE "Running", p4_physical)
    /\ UNCHANGED <<level_2_table, mem, memory_map, next, overflow_checks, returned,
                   ACPI_TABLES>>

\* setup_mmu is called with the address generate_page_table returned, once the
\* tables are built: Cr0::write with WRITE_PROTECT
SetupMmuWriteProtect ==
    /\ pc.at = "idle"
    /\ res.op \in {"generate_page_table", "remap_first_2mb_with_4kb"} /\ res.kind = "Ok"
    /\ ApplySetupMmu(setup_mmu(cpu, 1, P4Addr), "setup_mmu_efer", P4Addr)

\* Efer::write with NO_EXECUTE_ENABLE
SetupMmuNoExecuteEnable ==
    /\ pc.at = "setup_mmu_efer"
    /\ ApplySetupMmu(setup_mmu(cpu, 2, pc.frame), "setup_mmu_cr3", pc.frame)

\* Cr3::write(PhysFrame::from_start_address(p4_physical).unwrap(), flags)
SetupMmuLoadCr3 ==
    /\ pc.at = "setup_mmu_cr3"
    /\ ApplySetupMmu(setup_mmu(cpu, 3, pc.frame), "idle", pc.frame)

NextBoot ==
    \/ GeneratePageTable
    \/ RemapFirst2MbWith4Kb
    \/ SetupMmuWriteProtect
    \/ SetupMmuNoExecuteEnable
    \/ SetupMmuLoadCr3

SpecBoot == InitBoot /\ [][NextBoot]_vars

(***************************************************************************)
(* Properties of the mapper                                                *)
(***************************************************************************)
MapOps == {"map_to_4mib", "map_to_4kib"}
UnmapOps == {"unmap_4mib", "unmap_4kib"}
UpdateOps == {"update_flags_4mib", "update_flags_4kib"}
Is4MiB(op) == op \in {"map_to_4mib", "unmap_4mib", "update_flags_4mib"}
SizeOf(op) == IF Is4MiB(op) THEN Size4MiB ELSE Size4KiB
\* the flags translate reports for flags stored by an operation of that size
StoredFlags(op, flags) == IF Is4MiB(op) THEN flags \cup {HUGE_PAGE} ELSE flags
\* addresses of the page an operation is about, within the slots followed
AddrsOf(op, page) ==
    IF Is4MiB(op)
    THEN {page + i1 * Size4KiB + off : i1 \in P1Idx, off \in {0, 1, Size4KiB - 1}}
    ELSE {page + off : off \in {0, 1, Size4KiB - 1}}
TablesUnchanged == level_2_table' = level_2_table /\ mem' = mem
\* the terminal entry of the page of an operation named op
TerminalUnused(op, page) ==
    IF Is4MiB(op) THEN is_unused(level_2_table[p2_index(page)])
    ELSE /\ next_table(level_2_table[p2_index(page)]).err = "Ok"
         /\ is_unused(mem[next_table(level_2_table[p2_index(page)]).table][p1_index(page)])
TerminalInUse(op, page) ==
    IF Is4MiB(op) THEN ~is_unused(level_2_table[p2_index(page)])
    ELSE /\ next_table(level_2_table[p2_index(page)]).err = "Ok"
         /\ ~is_unused(mem[next_table(level_2_table[p2_index(page)]).table][p1_index(page)])
\* a step of map leaves the page mapped to the frame and flags it was called with
MapInstalled ==
    /\ res'.kind = "Ok"
    /\ translate(level_2_table', mem', res'.page)
         = Mapped(SizeOf(res'.op), res'.frame, 0, StoredFlags(res'.op, res'.flags))

\* C1 as stated: map of a page that translate reports NotMapped succeeds, for every
\* frame and every flag set, and translate then reports the frame and the flags
\* (with HUGE_PAGE for the 4 MiB size).
C1_MapNotMappedSucceeds ==
    [][ (res'.op \in MapOps /\ translate(level_2_table, mem, res'.page).kind = "NotMapped")
        => MapInstalled ]_vars

\* when map has what it needs: flags with PRESENT, the terminal entry unused, and for
\* a 4 KiB page flags and parent flags without HUGE_PAGE and, when the level-2 entry
\* is unused, parent flags with PRESENT and a frame left in the allocator
MapCanSucceed ==
    /\ PRESENT \in res'.flags
    /\ IF Is4MiB(res'.op) THEN TerminalUnused(res'.op, res'.page)
       ELSE /\ HUGE_PAGE \notin res'.flags
            /\ HUGE_PAGE \notin res'.pflags
            /\ \/ TerminalUnused(res'.op, res'.page)
               \/ /\ is_unused(level_2_table[p2_index(res'.page)])
                  /\ PRESENT \in res'.pflags
                  /\ allocate_frame_4kib(memory_map, next, overflow_checks).kind = "Some"

\* C1 amended: map of a page whose terminal entry is unused, with flags that contain
\* PRESENT (and, for 4 KiB, no HUGE_PAGE in flags or parent flags, and PRESENT in the
\* parent flags and a free frame when the level-1 table must be created), succeeds
\* and translate then reports the frame and the flags (with HUGE_PAGE for 4 MiB).
C1_MapUnusedPresentSucceeds ==
    [][ (res'.op \in MapOps /\ MapCanSucceed) => MapInstalled ]_vars

C1_Witness ==
    /\ res.op = "map_to_4kib" /\ res.kind = "Ok"
    /\ res.flags = {PRESENT, WRITABLE}
    /\ translate(level_2_table, mem, res.page) = Mapped(Size4KiB, res.frame, 0, res.flags)

\* C2: map on a page whose terminal entry is in use returns PageAlreadyMapped and
\* translate reports the same frame and flags for the page as before, for both sizes.
C2_MapOnMappedRejected ==
    [][ (res'.op \in MapOps /\ TerminalInUse(res'.op, res'.page))
        => /\ res'.kind = "PageAlreadyMapped"
           /\ translate(level_2_table', mem', res'.page)
                = translate(level_2_table, mem, res'.page) ]_vars

\* C3: after a successful unmap, which returns the frame the page was mapped to,
\* translate reports NotMapped on every address of the page.
C3_UnmapThenNotMapped ==
    [][ (res'.op \in UnmapOps /\ res'.kind = "Ok")
        => /\ translate(level_2_table, mem, res'.page).kind = "Mapped"
           /\ translate(level_2_table, mem, res'.page).size = SizeOf(res'.op)
           /\ translate(level_2_table, mem, res'.page).frame = res'.ret
           /\ \A a \in AddrsOf(res'.op, res'.page) :
                  translate(level_2_table', mem', a) = NotMapped ]_vars

C3_Witness ==
    /\ res.op = "unmap_4kib" /\ res.kind = "Ok" /\ res.ret # 0
    /\ \A a \in AddrsOf(res.op, res.page) : translate(level_2_table, mem, a) = NotMapped
    /\ \E a \in Pages4KiB : translate(level_2_table, mem, a).kind = "Mapped"

\* C4: unmap of a page that is not mapped (parent entry unused, or terminal entry
\* unused) fails with PageNotMapped and changes no entry of any table.
C4_UnmapNotMappedFails ==
    [][ (/\ res'.op \in UnmapOps
         /\ \/ is_unused(level_2_table[p2_index(res'.page)])
            \/ TerminalUnused(res'.op, res'.page))
        => (res'.kind = "PageNotMapped" /\ TablesUnchanged) ]_vars

C4_Witness ==
    /\ res.op = "unmap_4kib" /\ res.kind = "PageNotMapped"
    /\ TerminalUnused(res.op, res.page)
    /\ \E a \in Pages4KiB : translate(level_2_table, mem, a).kind = "Mapped"

\* C5: unmap of a 4 KiB page under a huge-page level-2 entry, and unmap of a 4 MiB
\* page whose level-2 entry is present and points to a level-1 table, both return
\* ParentEntryHugePage and change no entry.
C5_UnmapSizeMismatch ==
    [][ (/\ res'.op \in UnmapOps
         /\ PRESENT \in level_2_table[p2_index(res'.page)].flags
         /\ Is4MiB(res'.op) <=> HUGE_PAGE \notin level_2_table[p2_index(res'.page)].flags)
        => (res'.kind = "ParentEntryHugePage" /\ TablesUnchanged) ]_vars

C5_Witness ==
    /\ res.op = "unmap_4mib" /\ res.kind = "ParentEntryHugePage"
    /\ next_table(level_2_table[p2_index(res.page)]).err = "Ok"
    /\ \E a \in Pages4KiB : translate(level_2_table, mem, a).kind = "Mapped"

\* C6: update_flags on a page for which translate reports NotMapped returns an
\* error, allocates no frame and changes no entry.
C6_UpdateFlagsNotMappedRejected ==
    [][ (/\ res'.op \in UpdateOps
         /\ \A a \in AddrsOf(res'.op, res'.page) : translate(level_2_table, mem, a) = NotMapped)
        => (res'.kind # "Ok" /\ TablesUnchanged /\ next' = next) ]_vars

\* a successful update_flags step on a page that was mapped, at the size of the
\* call, to a frame
UpdatedMappedPage ==
    /\ res'.op \in UpdateOps /\ res'.kind = "Ok"
    /\ translate(level_2_table, mem, res'.page).kind = "Mapped"
    /\ translate(level_2_table, mem, res'.page).size = SizeOf(res'.op)
\* the page is still mapped to that frame, with the new flags
SameFrameNewFlags ==
    translate(level_2_table', mem', res'.page)
      = Mapped(SizeOf(res'.op), translate(level_2_table, mem, res'.page).frame, 0,
               StoredFlags(res'.op, res'.flags))

\* C7 as stated: a successful update_flags leaves the page mapped to the same frame,
\* with the new flags (and HUGE_PAGE for 4 MiB), whatever the new flags are.
C7_UpdateFlagsKeepsMapped ==
    [][ UpdatedMappedPage => SameFrameNewFlags ]_vars

\* C7 amended: a successful update_flags with flags that contain PRESENT leaves the
\* page mapped to the same frame, with the new flags (and HUGE_PAGE for 4 MiB).
C7_UpdateFlagsPresentKeepsMapped ==
    [][ (UpdatedMappedPage /\ PRESENT \in res'.flags) => SameFrameNewFlags ]_vars

C7_Witness ==
    /\ res.op = "update_flags_4kib" /\ res.kind = "Ok"
    /\ res.flags = {PRESENT, WRITABLE}
    /\ translate(level_2_table, mem, res.page).kind = "Mapped"
    /\ translate(level_2_table, mem, res.page).frame # 0
    /\ translate(level_2_table, mem, res.page).flags = res.flags

\* C18: translate reports a terminal entry whose stored address is not aligned to
\* the size it is mapped at as InvalidFrameAddress, for a 4 KiB entry of a level-1
\* table and for a huge-page entry of the level-2 table alike.
C18_MisalignedIsInvalid ==
    \A page \in Pages4KiB :
        LET entry == level_2_table[p2_index(page)]
            t == next_table(entry)
        IN  /\ (t.err = "MappedToHugePage" /\ entry.addr % Size4MiB # 0)
                => translate(level_2_table, mem, page).kind = "InvalidFrameAddress"
            /\ (/\ t.err = "Ok"
                /\ ~is_unused(mem[t.table][p1_index(page)])
                /\ mem[t.table][p1_index(page)].addr % Size4KiB # 0)
                => translate(level_2_table, mem, page).kind = "InvalidFrameAddress"

\* C19: the offset translate returns for an address inside a huge page is made of
\* address bits below the huge-page size only: it is below the huge-page size, it
\* is at most the address's offset in the page, and two addresses that differ only
\* in index bits get the same offset.
C19_HugeOffsetFromLowBits ==
    (/\ res.op = "translate" /\ res.detail.tr.kind = "Mapped"
     /\ res.detail.tr.size = Size4MiB)
    => /\ res.detail.tr.offset < Size4MiB
       /\ res.detail.tr.offset <= res.page % Size4MiB
       /\ \A b \in TranslateAddrs :
              (/\ b % Size4MiB = res.page % Size4MiB
               /\ translate(level_2_table, mem, b).kind = "Mapped")
              => translate(level_2_table, mem, b).offset = res.detail.tr.offset

C19_Witness ==
    /\ res.op = "translate" /\ res.detail.tr.kind = "Mapped"
    /\ res.detail.tr.size = Size4MiB
    /\ res.page = 3 * Size4MiB + Size2MiB - 1
    /\ res.detail.tr.offset = Size2MiB - 1
    /\ translate(level_2_table, mem, Size2MiB - 1).kind = "Mapped"

\* C30: for every address inside a 4 MiB huge page, translate returns the offset
\* address mod 4 MiB, so that frame + offset is the physical address, in the lower
\* and in the upper 2 MiB half of the page.
C30_HugeOffsetIsAddrMod4MiB ==
    (/\ res.op = "translate" /\ res.detail.tr.kind = "Mapped"
     /\ res.detail.tr.size = Size4MiB)
    => res.detail.tr.offset = res.page % Size4MiB

\* C20: map of a 4 KiB page whose level-2 entry is unused, while the allocator has
\* no frame left, returns FrameAllocationFailed (no panic), leaves the level-2 entry
\* unused and changes no other entry.
C20_MapWithoutFrameFails ==
    [][ (/\ res'.op = "map_to_4kib"
         /\ is_unused(level_2_table[p2_index(res'.page)])
         /\ allocate_frame_4kib(memory_map, next, overflow_checks).kind = "None")
        => /\ res'.kind = "FrameAllocationFailed"
           /\ is_unused(level_2_table'[p2_index(res'.page)])
           /\ TablesUnchanged ]_vars

C20_Witness ==
    /\ res.op = "map_to_4kib" /\ res.kind = "FrameAllocationFailed"
    /\ res.pflags = {PRESENT, WRITABLE}
    /\ level_2_table = [i \in P2Idx |-> Unused]
    /\ returned # <<>> /\ returned[Len(returned)].kind = "None"

\* the level-1 table a level-2 entry of a 4 KiB map step pointed to before the step
TableBefore == next_table(level_2_table[p2_index(res'.page)])
TableAfter == next_table(level_2_table'[p2_index(res'.page)])

\* C21: when create_next_table allocates a table for an unused entry, the table is
\* zero-filled when the caller gets it: after the map step every entry of it is unused
\* except the one the map wrote, and the map never finds an entry in use in it. A
\* table that existed before is handed over as it was: the step changes no entry of
\* it except the one the map writes.
C21_NewTableZeroed ==
    [][ res'.op = "map_to_4kib" =>
          /\ (is_unused(level_2_table[p2_index(res'.page)]) /\ TableAfter.err = "Ok")
               => /\ res'.kind # "PageAlreadyMapped"
                  /\ mem'[TableAfter.table]
                       = IF res'.kind = "Ok"
                         THEN [ZeroTable EXCEPT ![p1_index(res'.page)]
                                                   = set_addr(res'.frame, res'.flags)]
                         ELSE ZeroTable
          /\ TableBefore.err = "Ok"
               => /\ \A i \in P1Idx : i # p1_index(res'.page)
                         => mem'[TableBefore.table][i] = mem[TableBefore.table][i]
                  /\ res'.kind # "Ok" => mem' = mem ]_vars

C21_Witness ==
    /\ res.op = "map_to_4kib" /\ res.kind = "Ok" /\ res.page = Size4KiB
    /\ returned = <<[size |-> Size4KiB, kind |-> "Some", addr |-> Size4KiB]>>
    /\ mem[Size4KiB] = [ZeroTable EXCEPT ![1] = set_addr(res.frame, res.flags)]

\* C22: create_next_table on an entry that points to a table leaves the entry with
\* its address and with the union of its flags and the insert flags: no flag it had
\* is cleared.
C22_ExistingEntryFlagsMerged ==
    [][ (res'.op = "map_to_4kib" /\ TableBefore.err = "Ok")
        => level_2_table'[p2_index(res'.page)]
             = set_flags(level_2_table[p2_index(res'.page)],
                         level_2_table[p2_index(res'.page)].flags \cup res'.pflags) ]_vars

C22_Witness ==
    /\ res.op = "map_to_4kib" /\ res.kind = "ParentEntryHugePage"
    /\ res.pflags = {PRESENT, HUGE_PAGE}
    /\ level_2_table[p2_index(res.page)] = set_addr(Size4KiB, {PRESENT, WRITABLE, HUGE_PAGE})

\* C28: a map call that returns an error (PageAlreadyMapped, ParentEntryHugePage or
\* FrameAllocationFailed) leaves every entry of every table as it was, the flags of
\* the parent entry included.
C28_FailedMapChangesNothing ==
    [][ (/\ res'.op \in MapOps
         /\ res'.kind \in {"PageAlreadyMapped", "ParentEntryHugePage", "FrameAllocationFailed"})
        => TablesUnchanged ]_vars

\* C29: map of a 4 KiB page never panics, whatever the tables, the page, the frame,
\* the flags and the parent flags are: it returns Ok or a MapToError. Stated of the
\* calls whose flags and parent flags hold no HUGE_PAGE: on their path the only
\* panic is "entry should be mapped at this point" of create_next_table.
C29_Map4KiBNeverPanics ==
    [][ (res'.op = "map_to_4kib" /\ HUGE_PAGE \notin (res'.flags \cup res'.pflags))
        => res'.kind # "Panic" ]_vars

(***************************************************************************)
(* Properties of the identity-mapping policy                               *)
(***************************************************************************)
\* an id_map step whose translate answer is the one of the page tables
IdMapStep == res'.op = "id_map" /\ res'.detail.tr = translate(level_2_table, mem, res'.page)
\* the step returned Ok(page) and the frame is now mapped at its own address, at
\* the size of the call, with at least PRESENT and the requested flags
IdMapInstalled ==
    /\ res'.kind = "Ok" /\ res'.ret = res'.page
    /\ translate(level_2_table', mem', res'.page).kind = "Mapped"
    /\ translate(level_2_table', mem', res'.page).size = res'.detail.size
    /\ translate(level_2_table', mem', res'.page).frame = res'.frame
    /\ ({PRESENT} \cup res'.flags) \subseteq translate(level_2_table', mem', res'.page).flags

\* C13 as stated: id_map of a frame whose address translate reports NotMapped
\* creates the identity mapping and returns Ok(page); translate then reports the
\* frame with flags that contain PRESENT and the requested ones.
C13_IdMapNotMappedCreates ==
    [][ (IdMapStep /\ res'.detail.tr.kind = "NotMapped") => IdMapInstalled ]_vars

\* when the map that id_map issues has what it needs: the terminal entry unused, and
\* for a 4 KiB frame no HUGE_PAGE among the requested flags and either a level-1
\* table in place or an unused level-2 entry and a frame left in the allocator
IdMapCanSucceed ==
    IF res'.detail.size = Size4MiB THEN is_unused(level_2_table[p2_index(res'.page)])
    ELSE /\ HUGE_PAGE \notin res'.flags
         /\ \/ TerminalUnused("map_to_4kib", res'.page)
            \/ /\ is_unused(level_2_table[p2_index(res'.page)])
               /\ allocate_frame_4kib(memory_map, next, overflow_checks).kind = "Some"

\* C13 amended: id_map of a frame whose address translate reports NotMapped, whose
\* terminal entry is unused and, for a 4 KiB frame, with no HUGE_PAGE requested and
\* a frame left in the allocator when the level-1 table must be created, creates the
\* identity mapping and returns Ok(page); translate then reports the frame with
\* flags that contain PRESENT and the requested ones.
C13_IdMapUnusedCreates ==
    [][ (IdMapStep /\ res'.detail.tr.kind = "NotMapped" /\ IdMapCanSucceed)
        => IdMapInstalled ]_vars

C13_Witness ==
    /\ res.op = "id_map" /\ res.kind = "Ok" /\ res.detail.tr.kind = "NotMapped"
    /\ res.detail.size = Size4KiB /\ res.flags = {WRITABLE}
    /\ returned # <<>>
    /\ translate(level_2_table, mem, res.page)
         = Mapped(Size4KiB, res.frame, 0, {PRESENT, WRITABLE})

\* C14: id_map of a frame whose address is mapped, at any size, to a frame other than
\* the requested frame's containing frame of that size fails with
\* MappingIsNotIdentity(requested containing frame, mapped frame) and changes no
\* entry.
C14_NotIdentityRejected ==
    [][ (/\ IdMapStep /\ res'.detail.tr.kind = "Mapped"
         /\ containing_address(res'.frame, res'.detail.tr.size) # res'.detail.tr.frame)
        => /\ res'.kind = "MappingIsNotIdentity"
           /\ res'.detail.requested = containing_address(res'.frame, res'.detail.tr.size)
           /\ res'.detail.actual = res'.detail.tr.frame
           /\ TablesUnchanged ]_vars

\* C15: id_map of a frame that is already identity-mapped succeeds exactly when
\* PRESENT and the requested flags are all among the mapping's current flags;
\* otherwise it fails with AlreadyMappedDiffFlags carrying the current flags of the
\* mapping. Either way no entry changes and no frame is allocated.
C15_SecondIdMapChecksFlags ==
    [][ (/\ IdMapStep /\ res'.detail.tr.kind = "Mapped"
         /\ containing_address(res'.frame, res'.detail.tr.size) = res'.detail.tr.frame)
        => /\ TablesUnchanged /\ next' = next
           /\ IF ({PRESENT} \cup res'.flags) \subseteq res'.detail.tr.flags
              THEN res'.kind = "Ok" /\ res'.ret = res'.page
              ELSE /\ res'.kind = "AlreadyMappedDiffFlags"
                   /\ res'.detail.flags = res'.detail.tr.flags ]_vars

C15_Witness ==
    /\ res.op = "id_map" /\ res.kind = "AlreadyMappedDiffFlags"
    /\ res.detail.size = Size4KiB /\ res.flags = {WRITABLE}
    /\ res.detail.flags = {PRESENT}
    /\ translate(level_2_table, mem, res.page) = Mapped(Size4KiB, res.frame, 0, {PRESENT})

\* C16: when translate answers InvalidFrameAddress for the frame's address, id_map
\* returns an error at once: no map call, so no frame is taken from the allocator
\* and no entry of any table changes.
C16_InvalidFrameAddressFailsAtOnce ==
    [][ (res'.op = "id_map" /\ res'.detail.tr.kind = "InvalidFrameAddress")
        => /\ res'.kind \notin {"Ok", "Panic"}
           /\ TablesUnchanged /\ next' = next /\ returned' = returned ]_vars

C16_Witness ==
    /\ res.op = "id_map" /\ res.detail.tr.kind = "InvalidFrameAddress"
    /\ res.kind = "FrameAllocationFailed"
    /\ res.detail.size = Size4KiB
    /\ level_2_table = [i \in P2Idx |-> Unused] /\ returned = <<>> /\ next = 0

\* C17: id_map_nocache_update_flags behaves as id_map with NO_CACHE added, except
\* that AlreadyMappedDiffFlags becomes update_flags(page, PRESENT | NO_CACHE | extra)
\* followed by Ok(page); every other outcome of id_map is passed on as it is, with
\* no update_flags.
C17_UpdateFlagsVariant ==
    [][ res'.op = "id_map_nocache_update_flags" =>
          LET r == id_map(res'.detail.tr, res'.detail.size, level_2_table, mem, memory_map,
                          next, overflow_checks, res'.frame, {NO_CACHE} \cup res'.flags)
              u == update_flags(res'.detail.size, level_2_table, mem, next, res'.page,
                                {PRESENT, NO_CACHE} \cup res'.flags)
          IN  IF r.kind = "AlreadyMappedDiffFlags"
              THEN /\ res'.kind = "Ok" /\ res'.ret = res'.page
                   /\ level_2_table' = u.p2 /\ mem' = u.mem
              ELSE /\ res'.kind = r.kind /\ res'.ret = r.ret
                   /\ level_2_table' = r.p2 /\ mem' = r.mem ]_vars

(***************************************************************************)
(* Properties of the frame allocator                                       *)
(***************************************************************************)
Pure2MiB == {k \in DOMAIN returned : returned[k].size # Size2MiB} = {}
IsUsable(r) == r.region_type = Usable
\* number of 4 KiB frames in the usable regions
RECURSIVE UsableFrameCount(_, _)
UsableFrameCount(map, i) ==
    IF i > Len(map) THEN 0
    ELSE (IF IsUsable(map[i]) THEN map[i].end_frame_number - map[i].start_frame_number ELSE 0)
         + UsableFrameCount(map, i + 1)
\* how many 4 KiB frames of usable regions come before the frame at addr in map
\* order; -1 when addr is in no usable region
RECURSIVE UsablePosition(_, _, _)
UsablePosition(map, i, addr) ==
    IF i > Len(map) THEN -1
    ELSE IF IsUsable(map[i]) /\ start_addr(map[i]) <= addr /\ addr < end_addr(map[i])
    THEN (addr - start_addr(map[i])) \div Size4KiB
    ELSE LET rest == UsablePosition(map, i + 1, addr) IN
         IF rest = -1 THEN -1
         ELSE rest + (IF IsUsable(map[i])
                      THEN map[i].end_frame_number - map[i].start_frame_number ELSE 0)
\* the 2 MiB-aligned 2 MiB frames that lie inside usable regions, in address order
Aligned2MiBFrames(map) ==
    {a \in {k * Size2MiB : k \in 0..8} :
        \E i \in DOMAIN map :
            IsUsable(map[i]) /\ start_addr(map[i]) <= a /\ a + Size2MiB <= end_addr(map[i])}

\* C8: on a fresh allocator the n-th 4 KiB allocate call returns the n-th 4 KiB
\* frame of the usable regions in map order: page-aligned, above the one before,
\* and exhaustion comes only after every usable frame (2560 of them for the single
\* region [0, 10 MiB)) has been returned. Stated of the latest call; every earlier
\* call was the latest call of an earlier state.
C8_4KiBFramesInOrder ==
    (Pure4KiB /\ returned # <<>>) =>
        LET n == Len(returned)
            r == returned[n]
        IN  /\ r.kind = "Some" =>
                /\ r.addr % Size4KiB = 0
                /\ UsablePosition(memory_map, 1, r.addr) = n - 1
                /\ n > 1 => (returned[n - 1].kind = "Some" /\ returned[n - 1].addr < r.addr)
            /\ r.kind = "None" => n - 1 >= UsableFrameCount(memory_map, 1)
            /\ (memory_map = TenMiBMap /\ r.kind = "None") => n > 2560
            /\ (memory_map = TenMiBMap /\ n > 2560) => r.kind = "None"

C8_Witness ==
    /\ memory_map = TenMiBMap /\ Pure4KiB
    /\ Len(returned) = 2561
    /\ returned[2560] = [size |-> Size4KiB, kind |-> "Some", addr |-> 2559 * Size4KiB]
    /\ returned[2561].kind = "None"

\* C9: on a fresh allocator repeated 2 MiB allocate calls return each 2 MiB-aligned
\* frame of the usable regions once, in increasing order, before exhaustion (5
\* frames for the single region [0, 10 MiB)): the n-th call returns the n-th of them
\* and only a call after the last of them reports exhaustion.
C9_2MiBFramesInOrder ==
    (Pure2MiB /\ returned # <<>>) =>
        LET n == Len(returned)
            r == returned[n]
            all == Aligned2MiBFrames(memory_map)
        IN  /\ r.kind = "Some" =>
                /\ r.addr \in all
                /\ Cardinality({a \in all : a < r.addr}) = n - 1
            /\ r.kind = "None" => n - 1 >= Cardinality(all)
            /\ (memory_map = TenMiBMap /\ r.kind = "None") => n > 5

\* C10: across any mix of 4 KiB and 2 MiB allocate calls no two returned frames
\* overlap in physical address range.
C10_NoOverlap ==
    \A i, j \in DOMAIN returned :
        (i < j /\ returned[i].kind = "Some" /\ returned[j].kind = "Some")
        => \/ returned[i].addr + returned[i].size <= returned[j].addr
           \/ returned[j].addr + returned[j].size <= returned[i].addr

\* C11: every frame allocate returns for a size is aligned to that size and lies
\* entirely inside one Usable region of the memory map (region start <= frame start
\* and frame start + size <= region end). Stated of the latest call.
C11_FramesInsideUsableRegion ==
    (returned # <<>> /\ returned[Len(returned)].kind = "Some") =>
        LET r == returned[Len(returned)] IN
        /\ r.addr % r.size = 0
        /\ \E i \in DOMAIN memory_map :
               /\ IsUsable(memory_map[i])
               /\ start_addr(memory_map[i]) <= r.addr
               /\ r.addr + r.size <= end_addr(memory_map[i])

InUsableRegion(addr) ==
    \E i \in DOMAIN memory_map :
        IsUsable(memory_map[i]) /\ region_holds(memory_map[i], addr)
\* frames below the end of the gigabytes followed
FramesFollowed == BootGigs * (ONE_GIG \div Size4KiB)
\* addresses looked at, in the gigabytes followed: the start of every 2 MiB page,
\* and the first address, the last address and the address after the last of every
\* region
BootProbes ==
    {k * TWO_MEG : k \in 0..(BootGigs * BootEntryCount - 1)}
    \cup {f * Size4KiB :
            f \in {g \in UNION {{memory_map[i].start_frame_number,
                                  memory_map[i].end_frame_number} : i \in DOMAIN memory_map} :
                     g < FramesFollowed}}
    \cup {(f - 1) * Size4KiB + (Size4KiB - 1) :
            f \in {g \in {memory_map[i].end_frame_number : i \in DOMAIN memory_map} :
                     0 < g /\ g <= FramesFollowed}}
Generated == res.op = "generate_page_table" /\ res.kind = "Ok"
Remapped == res.op = "remap_first_2mb_with_4kb"
\* addr is mapped to itself by a 4 KiB page with exactly these flags
IdentityPage(addr, flags) ==
    boot_translate(mem, P4Addr, addr) = Mapped(Size4KiB, addr, 0, flags)

\* C23: after generate_page_table every address in [0, 4 GiB) outside the Usable
\* regions is mapped to itself by a huge page that is present, no-execute and not
\* writable, and every address in a Usable region by a huge page that is present
\* and writable without NO_EXECUTE.
C23_GeneratedFlagsFollowRegions ==
    Generated =>
        \A a \in BootProbes :
            boot_translate(mem, P4Addr, a)
              = Mapped(Size2MiB, containing_address(a, TWO_MEG), a % TWO_MEG,
                       IF InUsableRegion(a) THEN {PRESENT, WRITABLE, HUGE_PAGE}
                       ELSE {PRESENT, HUGE_PAGE, NO_EXECUTE})

\* C24 as stated: after remap_first_2mb_with_4kb address 0 is mapped by a 4 KiB page
\* of its own whose flags hold NO_CACHE and NO_EXECUTE.
C24_PageZeroNoCacheNoExecute ==
    Remapped =>
        /\ boot_translate(mem, P4Addr, 0).kind = "Mapped"
        /\ boot_translate(mem, P4Addr, 0).size = Size4KiB
        /\ {NO_CACHE, NO_EXECUTE} \subseteq boot_translate(mem, P4Addr, 0).flags

\* C24 amended: after remap_first_2mb_with_4kb address 0 is not mapped (entry 0 of
\* the new p1 table is unused), and every other page up to 1 MiB that is neither the
\* stack guard nor in the trampoline range nor the video page is mapped to itself
\* with exactly PRESENT, NO_CACHE and NO_EXECUTE.
C24_PageZeroUnmapped ==
    Remapped =>
        /\ boot_translate(mem, P4Addr, 0) = NotMapped
        /\ is_unused(mem[P1Addr][0])
        /\ \A i \in 1..(ONE_MEG \div Size4KiB) :
               (/\ i * Size4KiB # res.detail.stack_guard
                /\ i * Size4KiB # VgaAddr
                /\ ~(/\ i * Size4KiB >= res.detail.smp_trampoline_start
                     /\ i * Size4KiB < res.detail.smp_trampoline_end))
               => IdentityPage(i * Size4KiB, {PRESENT, NO_CACHE, NO_EXECUTE})

C24_Witness ==
    /\ Remapped /\ res.detail.stack_guard = 7 * Size4KiB
    /\ boot_translate(mem, P4Addr, 0) = NotMapped
    /\ IdentityPage(Size4KiB, {PRESENT, NO_CACHE, NO_EXECUTE})
    /\ boot_translate(mem, P4Addr, TWO_MEG).size = Size2MiB

\* C25 as stated: after remap_first_2mb_with_4kb the page at the stack-guard address
\* is mapped to itself with PRESENT and nothing else, for every page-aligned guard
\* address in the first 2 MiB and every trampoline range.
C25_GuardPresentOnly ==
    Remapped => IdentityPage(res.detail.stack_guard, {PRESENT})

\* C25 amended: after remap_first_2mb_with_4kb the page at the stack-guard address is
\* mapped to itself with PRESENT and nothing else, for every page-aligned guard
\* address in the first 2 MiB other than 0 and the video address 0xb8000, and every
\* trampoline range, also one that holds the guard page.
C25_GuardPresentOnlyUnlessZeroOrVga ==
    (Remapped /\ res.detail.stack_guard \notin {0, VgaAddr})
    => IdentityPage(res.detail.stack_guard, {PRESENT})

C25_Witness ==
    /\ Remapped /\ res.detail.stack_guard = 9 * Size4KiB
    /\ res.detail.smp_trampoline_start = 7 * Size4KiB
    /\ res.detail.smp_trampoline_end = 10 * Size4KiB
    /\ IdentityPage(9 * Size4KiB, {PRESENT})
    /\ IdentityPage(8 * Size4KiB, {PRESENT, WRITABLE})

\* C26: after remap_first_2mb_with_4kb the page at 0xb8000 is mapped to itself with
\* exactly PRESENT, WRITABLE, NO_CACHE and NO_EXECUTE, whatever the stack guard and
\* the trampoline range are.
C26_VgaPage ==
    Remapped => IdentityPage(VgaAddr, {PRESENT, WRITABLE, NO_CACHE, NO_EXECUTE})

C26_Witness ==
    /\ Remapped /\ res.detail.stack_guard = VgaAddr
    /\ res.detail.smp_trampoline_start = 8 * Size4KiB
    /\ res.detail.smp_trampoline_end = VgaAddr + Size4KiB
    /\ IdentityPage(VgaAddr, {PRESENT, WRITABLE, NO_CACHE, NO_EXECUTE})

(***************************************************************************)
(* Properties of the ACPI singleton                                        *)
(***************************************************************************)
\* C27: init_acpi_table takes the static from None to Some once: a call that finds
\* it None either stores the tables or panics leaving it None; a call that finds it
\* Some panics and leaves what is stored; no other step writes the static.
C27_InitOnce ==
    [][ /\ ACPI_TABLES.tag = "Some" => ACPI_TABLES' = ACPI_TABLES
        /\ ACPI_TABLES' # ACPI_TABLES => (res'.op = "init_acpi_table" /\ res'.kind = "Ok")
        /\ res'.op = "init_acpi_table" =>
             IF ACPI_TABLES.tag = "None"
             THEN \/ res'.kind = "Ok" /\ ACPI_TABLES'.tag = "Some"
                  \/ res'.kind = "Panic" /\ ACPI_TABLES'.tag = "None"
             ELSE res'.kind = "Panic" ]_vars

C27_Witness ==
    /\ res.op = "init_acpi_table" /\ res.kind = "Panic"
    /\ ACPI_TABLES.tag = "Some" /\ ACPI_TABLES.acpi.apics # res.ret

(***************************************************************************)
(* Properties of the mapper: levels                                        *)
(***************************************************************************)
\* the level-2 entry of the page of the step points to a level-1 table
ParentIsTable == next_table(level_2_table[p2_index(res'.page)]).err = "Ok"

\* C31: update_flags of a 4 MiB page whose level-2 entry points to a level-1 table
\* is rejected, and the addresses reachable through that entry translate as before.
C31_UpdateFlagsKeepsLevel ==
    [][ (res'.op = "update_flags_4mib" /\ ParentIsTable)
        => /\ res'.kind # "Ok"
           /\ \A a \in AddrsOf("update_flags_4mib", res'.page) :
                  translate(level_2_table', mem', a) = translate(level_2_table, mem, a) ]_vars

\* every address of the 4 MiB page looked at translates to NotMapped
RegionNotMapped(p2, memv, page) ==
    \A a \in AddrsOf("map_to_4mib", page) : translate(p2, memv, a) = NotMapped

\* C32: after a 4 KiB page was unmapped, so that translate reports NotMapped for
\* every address of the enclosing 4 MiB page, map of the enclosing 4 MiB page
\* succeeds.
C32_UnmappedRegionMappableAt4MiB ==
    [][ (/\ res.op = "unmap_4kib" /\ res.kind = "Ok"
         /\ res'.op = "map_to_4mib"
         /\ res'.page = containing_address(res.page, Size4MiB)
         /\ RegionNotMapped(level_2_table, mem, res'.page))
        => res'.kind = "Ok" ]_vars

(***************************************************************************)
(* Properties of the identity-mapping policy: the flag-upgrade variant     *)
(***************************************************************************)
\* an id_map_nocache_update_flags step whose translate answer is the one of the
\* page tables
UpdateFlagsStep ==
    /\ res'.op = "id_map_nocache_update_flags"
    /\ res'.detail.tr = translate(level_2_table, mem, res'.page)
\* the address of the frame was mapped, at some size, to another frame
MappedElsewhere ==
    /\ res'.detail.tr.kind = "Mapped"
    /\ containing_address(res'.frame, res'.detail.tr.size) # res'.detail.tr.frame

\* C33: id_map_nocache_update_flags returns Ok(page) only if the address of the frame
\* then translates to the frame; a mapping of that address to a different frame is
\* reported as MappingIsNotIdentity and no entry changes, at whatever size it is
\* mapped and whatever its flags are.
C33_UpdateFlagsKeepsIdentity ==
    [][ UpdateFlagsStep =>
          /\ res'.kind = "Ok" =>
               /\ translate(level_2_table', mem', res'.page).kind = "Mapped"
               /\ translate(level_2_table', mem', res'.page).frame
                    + translate(level_2_table', mem', res'.page).offset = res'.frame
          /\ MappedElsewhere => (res'.kind = "MappingIsNotIdentity" /\ TablesUnchanged) ]_vars

\* C34: when id_map_nocache_update_flags succeeds on a page that was mapped, the
\* flags of the mapping afterwards hold every flag it had before, and PRESENT,
\* NO_CACHE and the requested extra flags.
C34_UpgradeOnlyAddsFlags ==
    [][ (UpdateFlagsStep /\ res'.detail.tr.kind = "Mapped" /\ res'.kind = "Ok")
        => /\ res'.detail.tr.flags \subseteq translate(level_2_table', mem', res'.page).flags
           /\ ({PRESENT, NO_CACHE} \cup res'.flags)
                \subseteq translate(level_2_table', mem', res'.page).flags ]_vars

\* C35: id_map_nocache_update_flags on an address that is mapped, at the size of the
\* call or at another, returns Ok(page) or an IdMapError: it never panics.
C35_UpdateFlagsNeverPanics ==
    [][ (UpdateFlagsStep /\ res'.detail.tr.kind = "Mapped") => res'.kind # "Panic" ]_vars

\* the frame allocator answered None to a call made during the step
AllocatorExhaustedInStep ==
    \E k \in (Len(returned) + 1)..Len(returned') : returned'[k].kind = "None"

\* C36: id_map returns FrameAllocationFailed only when the frame allocator returned
\* None during the call.
C36_FrameAllocationFailedMeansExhausted ==
    [][ (res'.op = "id_map" /\ res'.kind = "FrameAllocationFailed")
        => AllocatorExhaustedInStep ]_vars

(***************************************************************************)
(* create_next_table write by write, with a translate on another core      *)
(***************************************************************************)
\* the position of a create_next_table call
At(at, page, insert_flags, f, created) ==
    [at |-> at, page |-> page, insert_flags |-> insert_flags, frame |-> f, created |-> created]
\* the call returned (or panicked) with this kind and table
CreateNextTableReturns(kind, table) ==
    /\ pc' = IF kind = "Panic" THEN [Idle EXCEPT !.at = "panicked"] ELSE Idle
    /\ res' = Result("create_next_table", pc.page, 0, {}, pc.insert_flags, kind, table)
\* the call goes on to the position at
CreateNextTableGoesOn(at, page, insert_flags, f, created) ==
    /\ pc' = At(at, page, insert_flags, f, created)
    /\ res' = Result("create_next_table", page, 0, {}, insert_flags, "Running", f)

\* the caller (map_to_4kib) enters create_next_table for the level-2 entry of the
\* page; an unused entry makes it ask the allocator, an entry in use gets the
\* insert flags merged in
CreateNextTableEnter ==
    \E page \in Pages4KiB, insert_flags \in FlagSets :
        LET entry == level_2_table[p2_index(page)]
            a == allocate_frame_4kib(memory_map, next, overflow_checks)
        IN  /\ pc.at = "idle"
            /\ is_unused(entry) => MayAllocate
            /\ IF is_unused(entry)
               THEN /\ next' = a.next
                    /\ returned' = Append(returned, [size |-> Size4KiB, kind |-> a.kind,
                                                     addr |-> a.addr])
                    /\ UNCHANGED level_2_table
                    /\ IF a.kind = "Some"
                       THEN CreateNextTableGoesOn("set_frame", page, insert_flags, a.addr, FALSE)
                       ELSE /\ pc' = Idle
                            /\ res' = Result("create_next_table", page, 0, {}, insert_flags,
                                             "FrameAllocationFailed", 0)
               ELSE /\ level_2_table' =
                         IF insert_flags # {} /\ ~(insert_flags \subseteq entry.flags)
                         THEN [level_2_table EXCEPT ![p2_index(page)] =
                                 set_flags(entry, entry.flags \cup insert_flags)]
                         ELSE level_2_table
                    /\ CreateNextTableGoesOn("next_table_mut", page, insert_flags, 0, FALSE)
                    /\ UNCHANGED <<next, returned>>
            /\ UNCHANGED <<mem, memory_map, overflow_checks, ACPI_TABLES, cpu>>

\* entry.set_frame(frame, insert_flags): the entry now points to the new frame
CreateNextTableSetFrame ==
    /\ pc.at = "set_frame"
    /\ IF HUGE_PAGE \in pc.insert_flags
       \* set_frame asserts that the flags hold no HUGE_PAGE
       THEN CreateNextTableReturns("Panic", 0) /\ UNCHANGED level_2_table
       ELSE /\ level_2_table' = [level_2_table EXCEPT ![p2_index(pc.page)] =
                                   set_addr(pc.frame, pc.insert_flags)]
            /\ CreateNextTableGoesOn("next_table_mut", pc.page, pc.insert_flags, pc.frame, TRUE)
    /\ UNCHANGED <<mem, memory_map, next, overflow_checks, returned, ACPI_TABLES, cpu>>

\* self.next_table_mut(entry)
CreateNextTableNextTableMut ==
    LET t == next_table(level_2_table[p2_index(pc.page)]) IN
    /\ pc.at = "next_table_mut"
    /\ IF t.err = "MappedToHugePage" THEN CreateNextTableReturns("MappedToHugePage", 0)
       ELSE IF t.err = "NotMapped" THEN CreateNextTableReturns("Panic", 0)
       ELSE IF pc.created
       THEN CreateNextTableGoesOn("zero", pc.page, pc.insert_flags, t.table, TRUE)
       ELSE CreateNextTableReturns("Ok", t.table)
    /\ UNCHANGED <<level_2_table, mem, memory_map, next, overflow_checks, returned,
                   ACPI_TABLES, cpu>>

\* page_table.zero()
CreateNextTableZero ==
    /\ pc.at = "zero"
    /\ mem' = [mem EXCEPT ![pc.frame] = ZeroTable]
    /\ CreateNextTableReturns("Ok", pc.frame)
    /\ UNCHANGED <<level_2_table, memory_map, next, overflow_checks, returned, ACPI_TABLES,
                   cpu>>

\* another core, or the hardware walker, translates an address through the shared
\* tables, wherever the call stands
TranslateOnOtherCore ==
    \E addr \in Pages4KiB :
        /\ res' = [Result("translate", addr, 0, {}, {}, translate(level_2_table, mem, addr).kind,
                          translate(level_2_table, mem, addr).frame)
                     EXCEPT !.detail = [NoDetail EXCEPT !.tr = translate(level_2_table, mem, addr)]]
        /\ UNCHANGED <<level_2_table, mem, memory_map, next, overflow_checks, returned,
                       ACPI_TABLES, pc, cpu>>

\* between two calls of create_next_table the mapper's operations on 4 MiB pages
\* run to their end
BetweenCalls ==
    /\ pc.at = "idle"
    /\ MapTo4MiB \/ Unmap4MiB \/ UpdateFlags4MiB

NextWalker ==
    \/ CreateNextTableEnter
    \/ CreateNextTableSetFrame
    \/ CreateNextTableNextTableMut
    \/ CreateNextTableZero
    \/ TranslateOnOtherCore
    \/ BetweenCalls

SpecWalker == Init /\ [][NextWalker]_vars

(***************************************************************************)
(* Properties of create_next_table between its writes                      *)
(***************************************************************************)
\* the new table frame of the call that is under way is the table of a present
\* level-2 entry
NewTableInstalled ==
    /\ pc.created
    /\ next_table(level_2_table[p2_index(pc.page)]).err = "Ok"
    /\ next_table(level_2_table[p2_index(pc.page)]).table = pc.frame

\* C37: in no state during create_next_table does a present parent entry point to
\* the newly allocated table frame before that frame is zero-filled, so that a
\* translate on another core never reports what the frame held before as a mapping.
C37_NoStaleTableInstalled ==
    /\ NewTableInstalled => mem[pc.frame] = ZeroTable
    /\ (res.op = "translate" /\ NewTableInstalled) => res.detail.tr.kind # "Mapped"

(***************************************************************************)
(* Properties of the bootloader's page tables: what is populated           *)
(***************************************************************************)
\* some region of the memory map holds addr
InSomeRegion(addr) == \E i \in DOMAIN memory_map : region_holds(memory_map[i], addr)
\* the start addresses of the 2 MiB slots of the gigabytes followed
BootSlots == {k * TWO_MEG : k \in 0..(BootGigs * BootEntryCount - 1)}

InTrampoline(addr) ==
    addr >= res.detail.smp_trampoline_start /\ addr < res.detail.smp_trampoline_end

\* C39: after remap_first_2mb_with_4kb every 4 KiB page of the first 2 MiB other than
\* page 0, the stack-guard page and the video page is mapped to itself with
\* PRESENT and WRITABLE if it is in the trampoline range, else with PRESENT, NO_CACHE
\* and NO_EXECUTE if its address is at most 1 MiB, else with PRESENT alone.
C39_LowPagesByPrecedence ==
    Remapped =>
        \A i \in 1..(BootEntryCount - 1) :
            (i * Size4KiB # res.detail.stack_guard /\ i * Size4KiB # VgaAddr)
            => IdentityPage(i * Size4KiB,
                            IF InTrampoline(i * Size4KiB) THEN {PRESENT, WRITABLE}
                            ELSE IF i * Size4KiB <= ONE_MEG
                            THEN {PRESENT, NO_CACHE, NO_EXECUTE}
                            ELSE {PRESENT})

C39_Witness ==
    /\ Remapped
    /\ res.detail.smp_trampoline_start = 7 * Size4KiB
    /\ res.detail.smp_trampoline_end = 10 * Size4KiB
    /\ res.detail.stack_guard = ONE_MEG + 80 * Size4KiB
    /\ IdentityPage(7 * Size4KiB, {PRESENT, WRITABLE})
    /\ IdentityPage(10 * Size4KiB, {PRESENT, NO_CACHE, NO_EXECUTE})
    /\ IdentityPage(ONE_MEG, {PRESENT, NO_CACHE, NO_EXECUTE})
    /\ IdentityPage(ONE_MEG + Size4KiB, {PRESENT})

(***************************************************************************)
(* Properties of setup_mmu                                                 *)
(***************************************************************************)
\* C40: setup_mmu sets CR0.WRITE_PROTECT, then EFER.NO_EXECUTE_ENABLE, and only then
\* loads the address of the p4 table into CR3, keeping the flags CR3 had; in no
\* state is the new root active while no-execute-enable or write protection is off.
C40_RootLoadedLast ==
    [][ /\ pc'.at = "setup_mmu_efer" => cpu'.write_protect
        /\ pc'.at = "setup_mmu_cr3" => (cpu'.write_protect /\ cpu'.no_execute_enable)
        /\ cpu'.cr3 # cpu.cr3 =>
             /\ pc.at = "setup_mmu_cr3" /\ pc'.at = "idle"
             /\ cpu.write_protect /\ cpu.no_execute_enable
             /\ cpu'.cr3 = P4Addr /\ cpu'.cr3_flags = cpu.cr3_flags
        /\ cpu'.cr3 = P4Addr => (cpu'.write_protect /\ cpu'.no_execute_enable)
        /\ (res'.op = "setup_mmu" /\ res'.kind = "Ok") => cpu'.cr3 = P4Addr ]_vars

C40_Witness ==
    /\ res.op = "setup_mmu" /\ res.kind = "Ok" /\ pc.at = "idle"
    /\ cpu = [write_protect |-> TRUE, no_execute_enable |-> TRUE, cr3 |-> P4Addr,
              cr3_flags |-> {"PAGE_LEVEL_WRITETHROUGH"}]
    /\ mem[P4Addr][0] = set_addr(P3Addr, {PRESENT, WRITABLE})
====
